---- MODULE Spec2Model ----
(***************************************************************************)
(* Model of the TopstepX trade-history ingestion scripts:                  *)
(*   GAS/auto_tradehistory.js  (authenticate, searchAccounts, searchTrades,*)
(*                              getTradeHistory, saveTradeHistoryToSheet,  *)
(*                              fetchAndSaveTradeHistory)                  *)
(*   daily-profit script       (calculateDailyProfits)                     *)
(*                                                                         *)
(* Time is counted in whole hours since 00:00 UTC of day 0; a calendar day *)
(* has 24 of them.  A time zone is its offset from UTC in hours.  Money is *)
(* counted in units of 0.5.                                                *)
(***************************************************************************)
EXTENDS Integers, Sequences, FiniteSets, TLC

\* ------------------------------------------------------------------ bounds
\* A new run is started only while the ledger holds at most MaxLedger rows.
MaxLedger == 2

\* The ledgers the aggregation is tried on hold at most MaxRows rows.
MaxRows == 3

\* Significant bits of a number's significand.
SignificandBits == 7

\* Target days a run may be asked for.
Days == {1, 2}

\* Time zones the script project may be configured with (UTC, Asia/Tokyo).
ScriptTimeZones == {0, 9}

\* ------------------------------------------------------- program constants
\* CONFIG.TIMEZONE = 'Asia/Tokyo' = UTC+9
CONFIG_TIMEZONE == 9

HoursPerDay == 24

\* ------------------------------------------------------------------- dates
\* A 'yyyy-MM-dd' string.  wellFormed: it matches /^\d{4}-\d{2}-\d{2}$/;
\* calendar: it names a day that exists (2025-13-45 does not).
DateStr(d) == [wellFormed |-> TRUE, calendar |-> TRUE, day |-> d]

BadShapeDate == [wellFormed |-> FALSE, calendar |-> FALSE, day |-> 0]

BadCalendarDate == [wellFormed |-> TRUE, calendar |-> FALSE, day |-> 0]

\* A well-formed string whose day is within 1..31 but past the end of its
\* month (2025-02-30), on an engine whose Date parser carries the excess
\* days into the next month instead of rejecting the string: d is the day
\* the parser lands on.  An engine that rejects the string treats it as it
\* treats BadCalendarDate.
OverflowDate(d) == [wellFormed |-> TRUE, calendar |-> FALSE, day |-> d]

TargetDates ==
  {DateStr(d) : d \in Days} \cup {BadShapeDate, BadCalendarDate, OverflowDate(2)}

\* Utilities.formatDate(instant, tz, 'yyyy-MM-dd')
formatDate(instant, tz) == DateStr((instant + tz) \div HoursPerDay)

\* An ISO-8601 UTC timestamp string 'yyyy-MM-ddTHH:..+00:00' as the provider
\* sends it: the day and hour it spells out.
IsoCell(day, hour) == [kind |-> "iso", day |-> day, hour |-> hour]

\* Other timestamp cells a ledger sheet can hold: a 'yyyy-MM-dd HH:mm:ss'
\* string, and a Date object (the instant it stands for, split into the UTC
\* day and hour).
LocalCell(day, hour) == [kind |-> "local", day |-> day, hour |-> hour]

DateCell(instant) ==
  [kind |-> "date", day |-> instant \div HoursPerDay, hour |-> instant % HoursPerDay]

\* a string of ten characters or more that is no date: 'not a date'
BadCell == [kind |-> "text", day |-> 0, hour |-> 0]

\* a string of fewer than ten characters that is no date: 'abc'
ShortCell == [kind |-> "short", day |-> 0, hour |-> 0]

\* an empty cell: ''
EmptyCell == [kind |-> "empty", day |-> 0, hour |-> 0]

\* a value that is neither a string nor a Date: a number, a boolean
NumberCell == [kind |-> "number", day |-> 0, hour |-> 0]

\* new Date(isoString): the offset in the string is honoured.
parseIso(cell) == cell.day * HoursPerDay + cell.hour

\* new Date('yyyy-MM-dd HH:mm:ss'): no offset, read as local (script) time.
parseLocal(day, hour, tz) == day * HoursPerDay + hour - tz

\* getDateTimestamps(dateString)
Throw(kind) == [ok |-> FALSE, kind |-> kind]

\* Variant of getDateTimestamps: the window ends at the next midnight.
getDateTimestampsToMidnight(dateString) ==
  IF ~dateString.wellFormed THEN Throw("InvalidDateFormat")
  ELSE IF ~dateString.calendar /\ dateString.day = 0 THEN Throw("RangeError")
  ELSE [ok |-> TRUE,
        startTimestamp |-> dateString.day * HoursPerDay,
        endTimestamp |-> (dateString.day + 1) * HoursPerDay]

\* Variant of getDateTimestamps: a string of the wrong shape is not thrown
\* back, the window of day 1 is given for it.
getDateTimestampsDefaulting(dateString) ==
  IF ~dateString.calendar /\ dateString.day = 0 /\ dateString.wellFormed
  THEN Throw("RangeError")
  ELSE LET day == IF dateString.wellFormed THEN dateString.day ELSE 1
       IN [ok |-> TRUE,
           startTimestamp |-> day * HoursPerDay,
           endTimestamp |-> day * HoursPerDay + (HoursPerDay - 1)]

\* The first and the last hour of the day stand for 00:00:00.000 and
\* 23:59:59.999.
getDateTimestamps(dateString) ==
  IF ~dateString.wellFormed THEN Throw("InvalidDateFormat")
  ELSE IF ~dateString.calendar /\ dateString.day = 0 THEN Throw("RangeError")
  ELSE [ok |-> TRUE,
        startTimestamp |-> dateString.day * HoursPerDay,
        endTimestamp |-> dateString.day * HoursPerDay + (HoursPerDay - 1)]

\* --------------------------------------------------------------- provider
\* A value that may be a number, null, or a text.  present: parseFloat of
\* it is a number, and value is that number; whole: it is a number itself.
Num(n) == [present |-> TRUE, value |-> n, whole |-> TRUE]

\* null, an empty cell, a text that does not begin with a number ('abc')
Null == [present |-> FALSE, value |-> 0, whole |-> FALSE]

\* a text that begins with a number and goes on ('12abc', '1,234.50'):
\* parseFloat reads the leading number n
PrefixText(n) == [present |-> TRUE, value |-> n, whole |-> FALSE]

\* The trades the platform knows, by id: execution hour (UTC), P&L, fee,
\* side, voided.  Trade 2 executes late in the UTC day; trade 3 is a
\* non-closing, voided fill without P&L.
TradeIds == {1, 2, 3}

TradeAccount(id) == IF id = 3 THEN 2 ELSE 1

TradeHour(id) == CASE id = 1 -> 3 [] id = 2 -> 16 [] OTHER -> 10

TradePnl(id) == CASE id = 1 -> Num(20) [] id = 2 -> Num(0 - 8) [] OTHER -> Null

TradeFee(id) == CASE id = 1 -> Num(2) [] id = 2 -> Num(1) [] OTHER -> Num(3)

Trade(id, day) ==
  [id |-> id, creationTimestamp |-> IsoCell(day, TradeHour(id)),
   profitAndLoss |-> TradePnl(id), fees |-> TradeFee(id),
   side |-> id % 2, voided |-> (id = 3)]

RECURSIVE SeqOfIds(_)
SeqOfIds(S) ==
  IF S = {} THEN <<>>
  ELSE LET m == CHOOSE x \in S : \A y \in S : x <= y
       IN <<m>> \o SeqOfIds(S \ {m})

\* What /Trade/search may answer for one account and one window: any
\* selection of that account's trades executed inside [start, end].
TradesInWindow(accountId, start, end) ==
  { [i \in 1..Cardinality(S) |-> Trade(SeqOfIds(S)[i], start \div HoursPerDay)] :
      S \in SUBSET { id \in TradeIds :
                       /\ TradeAccount(id) = accountId
                       /\ start <= (start \div HoursPerDay) * HoursPerDay + TradeHour(id)
                       /\ (start \div HoursPerDay) * HoursPerDay + TradeHour(id) <= end } }

\* HTTP responses.  net: UrlFetchApp.fetch returned; json: the body parses;
\* object: the parsed body is an object (JSON.parse('null') is null, and
\* reading a property of null throws a TypeError).
\* The response that satisfies every check, and the responses that differ
\* from it in one respect.
GoodAuth ==
  [net |-> TRUE, code |-> 200, json |-> TRUE, object |-> TRUE, success |-> TRUE,
   errorCode |-> 0, token |-> "jwt"]

AuthResponses ==
  { GoodAuth, [GoodAuth EXCEPT !.net = FALSE], [GoodAuth EXCEPT !.code = 401],
    [GoodAuth EXCEPT !.json = FALSE], [GoodAuth EXCEPT !.object = FALSE],
    [GoodAuth EXCEPT !.success = FALSE],
    [GoodAuth EXCEPT !.errorCode = 1], [GoodAuth EXCEPT !.token = ""] }

\* Variant of authenticate: the token field is not looked at.
authenticateThreePart(resp) ==
  IF ~resp.net THEN Throw("FetchError")
  ELSE IF ~resp.json THEN Throw("AuthParseError")
  ELSE IF ~resp.object THEN Throw("TypeError")
  ELSE IF resp.code = 200 /\ resp.success /\ resp.errorCode = 0
       THEN [ok |-> TRUE, token |-> resp.token]
       ELSE Throw("AuthError")

\* Variant of authenticate: every failure after the fetch is rethrown as
\* the authentication error, a SyntaxError included.
authenticateOneKind(resp) ==
  IF ~resp.net THEN Throw("FetchError")
  ELSE IF resp.json /\ resp.object /\ resp.code = 200 /\ resp.success
          /\ resp.errorCode = 0 /\ resp.token # ""
       THEN [ok |-> TRUE, token |-> resp.token]
       ELSE Throw("AuthError")

\* authenticate(userName, apiKey)
authenticate(resp) ==
  IF ~resp.net THEN Throw("FetchError")
  ELSE IF ~resp.json THEN Throw("AuthParseError")
  ELSE IF ~resp.object THEN Throw("TypeError")
  ELSE IF resp.code = 200 /\ resp.success /\ resp.errorCode = 0 /\ resp.token # ""
       THEN [ok |-> TRUE, token |-> resp.token]
       ELSE Throw("AuthError")

\* Account names are character sequences; an account may have no string name.
Name(chars) == [isString |-> TRUE, chars |-> chars]

NoName == [isString |-> FALSE, chars |-> <<>>]

Account(id, name) == [id |-> id, name |-> name]

AccountUniverse ==
  << Account(1, Name(<<"S", "1">>)),
     Account(3, Name(<<"P", "R", "A", "C", "T", "I", "C", "E", "9">>)),
     Account(2, Name(<<"E", "X", "P">>)),
     Account(4, Name(<<"p", "r", "a", "c", "t", "i", "c", "e">>)),
     Account(5, NoName) >>

RECURSIVE SubSeqBy(_, _)
SubSeqBy(s, keep) ==
  IF s = <<>> THEN <<>>
  ELSE (IF keep[Len(s)] THEN SubSeqBy(SubSeq(s, 1, Len(s) - 1), keep) \o <<s[Len(s)]>>
        ELSE SubSeqBy(SubSeq(s, 1, Len(s) - 1), keep))

AccountLists ==
  { SubSeqBy(AccountUniverse, keep) : keep \in [1..Len(AccountUniverse) -> BOOLEAN] }

GoodAccounts(list) ==
  [net |-> TRUE, code |-> 200, json |-> TRUE, object |-> TRUE, success |-> TRUE,
   errorCode |-> 0, hasAccounts |-> TRUE, accounts |-> list]

AccountResponses ==
  { GoodAccounts(list) : list \in AccountLists } \cup
  { [GoodAccounts(AccountUniverse) EXCEPT !.net = FALSE],
    [GoodAccounts(AccountUniverse) EXCEPT !.code = 401],
    [GoodAccounts(AccountUniverse) EXCEPT !.json = FALSE],
    [GoodAccounts(AccountUniverse) EXCEPT !.object = FALSE],
    [GoodAccounts(AccountUniverse) EXCEPT !.success = FALSE],
    [GoodAccounts(AccountUniverse) EXCEPT !.errorCode = 1],
    [GoodAccounts(<<>>) EXCEPT !.hasAccounts = FALSE] }

\* searchAccounts(token)
searchAccounts(resp) ==
  IF ~resp.net THEN Throw("FetchError")
  ELSE IF ~resp.json THEN Throw("AccountParseError")
  ELSE IF ~resp.object THEN Throw("TypeError")
  ELSE IF resp.code = 200 /\ resp.success /\ resp.errorCode = 0 /\ resp.hasAccounts
       THEN [ok |-> TRUE, accounts |-> resp.accounts]
       ELSE Throw("AccountSearchError")

\* String.prototype.toUpperCase on the characters used here
toUpperCase(chars) ==
  [i \in 1..Len(chars) |->
     CASE chars[i] = "p" -> "P" [] chars[i] = "r" -> "R" [] chars[i] = "a" -> "A"
       [] chars[i] = "c" -> "C" [] chars[i] = "t" -> "T" [] chars[i] = "i" -> "I"
       [] chars[i] = "e" -> "E" [] OTHER -> chars[i]]

startsWith(chars, prefix) ==
  /\ Len(chars) >= Len(prefix)
  /\ SubSeq(chars, 1, Len(prefix)) = prefix

PRACTICE == <<"P", "R", "A", "C", "T", "I", "C", "E">>

\* Variant of isTradable: the name is compared as it is spelled.
isTradableCaseSensitive(account) ==
  IF account.name.isString
  THEN ~startsWith(account.name.chars, PRACTICE)
  ELSE FALSE

\* the filter callback of getTradeHistory
isTradable(account) ==
  IF account.name.isString
  THEN ~startsWith(toUpperCase(account.name.chars), PRACTICE)
  ELSE FALSE

RECURSIVE filterAccounts(_)
filterAccounts(allAccounts) ==
  IF allAccounts = <<>> THEN <<>>
  ELSE (IF isTradable(Head(allAccounts)) THEN <<Head(allAccounts)>> ELSE <<>>)
       \o filterAccounts(Tail(allAccounts))

GoodTrades(list) ==
  [net |-> TRUE, code |-> 200, json |-> TRUE, object |-> TRUE, success |-> TRUE,
   errorCode |-> 0, hasTrades |-> TRUE, trades |-> list]

TradeResponses(accountId, start, end) ==
  { GoodTrades(list) : list \in TradesInWindow(accountId, start, end) } \cup
  { [GoodTrades(<<>>) EXCEPT !.hasTrades = FALSE],
    [GoodTrades(<<>>) EXCEPT !.net = FALSE],
    [GoodTrades(<<>>) EXCEPT !.code = 401],
    [GoodTrades(<<>>) EXCEPT !.json = FALSE],
    [GoodTrades(<<>>) EXCEPT !.object = FALSE],
    [GoodTrades(<<>>) EXCEPT !.success = FALSE],
    [GoodTrades(<<>>) EXCEPT !.errorCode = 1] }

\* searchTrades(token, accountId, startTimestamp, endTimestamp).  The
\* messages of the errors it creates name the account; an exception of
\* UrlFetchApp.fetch is rethrown as it is.
ThrowFor(kind, accountId) == [ok |-> FALSE, kind |-> kind, accountId |-> accountId]

\* Variant of searchTrades: a response without a trades field is an error.
searchTradesStrict(resp, accountId) ==
  IF ~resp.net THEN ThrowFor("FetchError", 0)
  ELSE IF ~resp.json THEN ThrowFor("TradeParseError", accountId)
  ELSE IF ~resp.object THEN ThrowFor("TypeError", 0)
  ELSE IF resp.code = 200 /\ resp.success /\ resp.errorCode = 0 /\ resp.hasTrades
       THEN [ok |-> TRUE, trades |-> resp.trades]
       ELSE ThrowFor("TradeSearchError", accountId)

searchTrades(resp, accountId) ==
  IF ~resp.net THEN ThrowFor("FetchError", 0)
  ELSE IF ~resp.json THEN ThrowFor("TradeParseError", accountId)
  ELSE IF ~resp.object THEN ThrowFor("TypeError", 0)
  ELSE IF resp.code = 200 /\ resp.success /\ resp.errorCode = 0
       THEN [ok |-> TRUE, trades |-> IF resp.hasTrades THEN resp.trades ELSE <<>>]
       ELSE ThrowFor("TradeSearchError", accountId)

\* The result objects getTradeHistory can return with success: true for a
\* target day: one entry per tradable account, in the provider's order.
TradableLists == { filterAccounts(list) : list \in AccountLists } \ {<<>>}

RetrievedResults(day) ==
  LET w == getDateTimestamps(DateStr(day))
      answers(id) == TradesInWindow(id, w.startTimestamp, w.endTimestamp)
  IN UNION { { [i \in 1..Len(a) |-> [accountId |-> a[i].id, trades |-> f[i]]] :
                 f \in { g \in [1..Len(a) -> UNION { answers(a[j].id) : j \in 1..Len(a) }] :
                            \A i \in 1..Len(a) : g[i] \in answers(a[i].id) } } :
             a \in TradableLists }

\* ------------------------------------------------------------ the ledger
\* One row of the ledger sheet (the columns the scripts read back):
\* id, account id, timestamp cell, P&L, fee, side label, voided label.
LedgerRow(accountId, trade) ==
  [id |-> trade.id, accountId |-> accountId,
   timestamp |-> trade.creationTimestamp,
   profitAndLoss |-> trade.profitAndLoss, fees |-> trade.fees,
   side |-> IF trade.side = 0 THEN "buy" ELSE "sell",
   voided |-> IF trade.voided THEN "yes" ELSE "no"]

RECURSIVE accountRows(_, _)
accountRows(accountId, trades) ==
  IF trades = <<>> THEN <<>>
  ELSE <<LedgerRow(accountId, Head(trades))>> \o accountRows(accountId, Tail(trades))

\* newRows of saveTradeHistoryToSheet: result.results flattened
RECURSIVE newRows(_)
newRows(res) ==
  IF res = <<>> THEN <<>>
  ELSE accountRows(Head(res).accountId, Head(res).trades) \o newRows(Tail(res))

\* The scan of saveTradeHistoryToSheet gets a date out of the cell: an empty
\* cell is passed over, a value that is neither a Date nor a string of ten
\* characters or more is logged and passed over, and so is a string whose
\* Invalid Date makes Utilities.formatDate throw.
hasTradeDate(cell) == cell.kind \in {"iso", "local", "date"}

\* The scan's date of a timestamp cell.  A Date is formatted in
\* CONFIG.TIMEZONE.  A string cell is cut to its first 19 characters, 'T'
\* becomes ' ', the result is parsed as local time of the script's zone and
\* formatted in CONFIG.TIMEZONE.
tradeDateStr(cell, tz) ==
  IF cell.kind = "date"
  THEN formatDate(parseIso(cell), CONFIG_TIMEZONE)
  ELSE formatDate(parseLocal(cell.day, cell.hour, tz), CONFIG_TIMEZONE)

\* Variant of isTargetRow: a row whose date cannot be told is taken for a
\* row of the target date.
isTargetRowUnlessDated(cell, target, tz) ==
  ~hasTradeDate(cell) \/ tradeDateStr(cell, tz) = target

\* The scan puts the row on rowsToDelete.
isTargetRow(cell, target, tz) ==
  hasTradeDate(cell) /\ tradeDateStr(cell, tz) = target

\* rowsToDelete of saveTradeHistoryToSheet: sheet row numbers (row 1 is the
\* header, ledger[i] is sheet row i + 1), ascending.
RECURSIVE scanRows(_, _, _, _)
scanRows(rows, i, target, tz) ==
  IF i > Len(rows) THEN <<>>
  ELSE (IF isTargetRow(rows[i].timestamp, target, tz) THEN <<i + 1>> ELSE <<>>)
       \o scanRows(rows, i + 1, target, tz)

\* sheet.deleteRow(r)
deleteRow(rows, r) ==
  SubSeq(rows, 1, r - 2) \o SubSeq(rows, r, Len(rows))

\* Variant of deleteRows: lowest row first.
RECURSIVE deleteRowsAscending(_, _)
deleteRowsAscending(rows, toDelete) ==
  IF toDelete = <<>> THEN rows
  ELSE deleteRowsAscending(deleteRow(rows, toDelete[1]), Tail(toDelete))

\* the deletion loop of saveTradeHistoryToSheet: highest row first
RECURSIVE deleteRows(_, _)
deleteRows(rows, toDelete) ==
  IF toDelete = <<>> THEN rows
  ELSE deleteRows(deleteRow(rows, toDelete[Len(toDelete)]),
                  SubSeq(toDelete, 1, Len(toDelete) - 1))

\* Variant of afterHeaderCheck: the header row alone is rewritten.
afterHeaderCheckKeeping(rows, sh) == rows

\* What the header check of saveTradeHistoryToSheet leaves of the data rows:
\* a sheet whose header is not the expected one is cleared.
afterHeaderCheck(rows, sh) == IF sh = "ok" THEN rows ELSE <<>>

\* saveTradeHistoryToSheet(targetDate, result) when no sheet call throws:
\* the data rows afterwards.
saveTradeHistoryToSheet(rows, sh, target, res, tz) ==
  LET kept == afterHeaderCheck(rows, sh)
  IN deleteRows(kept, scanRows(kept, 1, target, tz)) \o newRows(res)

\* ------------------------------------------------------------- aggregation
\* Variant of hasDateTime: every cell is taken for a date.
hasDateTimeAlways(cell) == cell.kind = cell.kind

\* calculateDailyProfits: the row is not skipped.  A string that is no date
\* gives an Invalid Date, whose getTime() is NaN; a number has no getTime,
\* the TypeError is caught; both rows are skipped.
hasDateTime(cell) == cell.kind \notin {"text", "short", "empty", "number"}

\* calculateDailyProfits: the date key of a timestamp cell.  A string with
\* one blank is split and read as local time of the script's zone; any other
\* string goes through new Date(string), which honours the offset of an ISO
\* string; a Date object is used as it is.  The key is formatted in the
\* script's time zone.
dateKey(cell, tz) ==
  IF cell.kind = "local"
  THEN formatDate(parseLocal(cell.day, cell.hour, tz), tz)
  ELSE formatDate(parseIso(cell), tz)

\* Variant of parseFloatOr0: Number(cell) || 0, a text with anything after
\* its number is no number.
numberOr0(cell) == IF cell.whole THEN cell.value ELSE 0

\* parseFloat(cell) || 0
parseFloatOr0(cell) == IF cell.present THEN cell.value ELSE 0

\* JavaScript numbers are binary floating point: a sum is rounded to the
\* nearest number with SignificandBits significant bits, ties to the even
\* significand.  (The significand of a double has 53 bits; the model keeps
\* the rounding and narrows the width.)
RECURSIVE Ulp(_)
Ulp(n) == IF n < 2 ^ SignificandBits THEN 1 ELSE 2 * Ulp(n \div 2)

RoundNat(n) ==
  LET q == Ulp(n)
      lo == (n \div q) * q
  IN IF 2 * (n - lo) < q THEN lo
     ELSE IF 2 * (n - lo) > q THEN lo + q
     ELSE IF (lo \div q) % 2 = 0 THEN lo ELSE lo + q

Round(n) == IF n < 0 THEN 0 - RoundNat(0 - n) ELSE RoundNat(n)

\* a + b and a - b on JavaScript numbers
fadd(a, b) == Round(a + b)

fsub(a, b) == Round(a - b)

\* Variant of totalProfit: the fees are taken off.
RECURSIVE totalProfitNetOfFees(_)
totalProfitNetOfFees(rows) ==
  IF rows = <<>> THEN 0
  ELSE LET before == totalProfitNetOfFees(SubSeq(rows, 1, Len(rows) - 1))
           row == rows[Len(rows)]
       IN fsub(IF row.profitAndLoss.present /\ row.profitAndLoss.value # 0
               THEN fadd(before, row.profitAndLoss.value) ELSE before,
               parseFloatOr0(row.fees))

\* totalProfit of saveTradeHistoryToSheet: the P&L of the trades added up in
\* their order, a null or zero P&L adds nothing
RECURSIVE totalProfit(_)
totalProfit(rows) ==
  IF rows = <<>> THEN 0
  ELSE LET before == totalProfit(SubSeq(rows, 1, Len(rows) - 1))
           row == rows[Len(rows)]
       IN IF row.profitAndLoss.present /\ row.profitAndLoss.value # 0
          THEN fadd(before, row.profitAndLoss.value) ELSE before

\* Variant of foldDay: a row whose P&L cell reads as 0 is not counted.
RECURSIVE foldDaySkippingZero(_, _, _)
foldDaySkippingZero(rows, key, tz) ==
  IF rows = <<>> THEN [count |-> 0, totalProfitLoss |-> 0, totalFees |-> 0]
  ELSE LET before == foldDaySkippingZero(SubSeq(rows, 1, Len(rows) - 1), key, tz)
           row == rows[Len(rows)]
       IN IF hasDateTime(row.timestamp) /\ dateKey(row.timestamp, tz) = key
             /\ parseFloatOr0(row.profitAndLoss) # 0
          THEN [count |-> before.count + 1,
                totalProfitLoss |->
                  fadd(before.totalProfitLoss, parseFloatOr0(row.profitAndLoss)),
                totalFees |-> fadd(before.totalFees, parseFloatOr0(row.fees))]
          ELSE before

\* Variant of foldDay: rows labelled as voided are left out.
RECURSIVE foldDaySkippingVoided(_, _, _)
foldDaySkippingVoided(rows, key, tz) ==
  IF rows = <<>> THEN [count |-> 0, totalProfitLoss |-> 0, totalFees |-> 0]
  ELSE LET before == foldDaySkippingVoided(SubSeq(rows, 1, Len(rows) - 1), key, tz)
           row == rows[Len(rows)]
       IN IF hasDateTime(row.timestamp) /\ dateKey(row.timestamp, tz) = key
             /\ row.voided = "no"
          THEN [count |-> before.count + 1,
                totalProfitLoss |->
                  fadd(before.totalProfitLoss, parseFloatOr0(row.profitAndLoss)),
                totalFees |-> fadd(before.totalFees, parseFloatOr0(row.fees))]
          ELSE before

\* dailyData[key] after the loop over the rows, first row first: rows
\* without a date are skipped.
RECURSIVE foldDay(_, _, _)
foldDay(rows, key, tz) ==
  IF rows = <<>> THEN [count |-> 0, totalProfitLoss |-> 0, totalFees |-> 0]
  ELSE LET before == foldDay(SubSeq(rows, 1, Len(rows) - 1), key, tz)
           row == rows[Len(rows)]
       IN IF hasDateTime(row.timestamp) /\ dateKey(row.timestamp, tz) = key
          THEN [count |-> before.count + 1,
                totalProfitLoss |->
                  fadd(before.totalProfitLoss, parseFloatOr0(row.profitAndLoss)),
                totalFees |-> fadd(before.totalFees, parseFloatOr0(row.fees))]
          ELSE before

\* Variant of resultData: the keys are taken as Object.keys gives them, in
\* the order of their first row, without the sort.
RECURSIVE resultDataUnsorted(_, _, _)
resultDataUnsorted(keys, rows, tz) ==
  IF keys = {} THEN <<>>
  ELSE LET first(x) == CHOOSE i \in 1..Len(rows) :
                         /\ hasDateTime(rows[i].timestamp)
                         /\ dateKey(rows[i].timestamp, tz) = x
                         /\ \A j \in 1..(i - 1) :
                              ~(hasDateTime(rows[j].timestamp)
                                /\ dateKey(rows[j].timestamp, tz) = x)
           k == CHOOSE x \in keys : \A y \in keys : first(x) <= first(y)
           d == foldDay(rows, k, tz)
       IN <<[date |-> k, count |-> d.count,
             totalProfitLoss |-> d.totalProfitLoss, totalFees |-> d.totalFees,
             netProfit |-> fsub(d.totalProfitLoss, d.totalFees)]>>
          \o resultDataUnsorted(keys \ {k}, rows, tz)

\* Object.keys(dailyData).sort() and the result rows built from it
RECURSIVE resultData(_, _, _)
resultData(keys, rows, tz) ==
  IF keys = {} THEN <<>>
  ELSE LET k == CHOOSE x \in keys : \A y \in keys : x.day <= y.day
           d == foldDay(rows, k, tz)
       IN <<[date |-> k, count |-> d.count,
             totalProfitLoss |-> d.totalProfitLoss, totalFees |-> d.totalFees,
             netProfit |-> fsub(d.totalProfitLoss, d.totalFees)]>>
          \o resultData(keys \ {k}, rows, tz)

\* Variant of clearBelowHeader: nothing is cleared.
keepBelowHeader(rows) == rows

\* dailyProfitSheet.getRange(2, 1, getLastRow() - 1, 5).clear(): every row
\* below the header is emptied.
clearBelowHeader(rows) == SubSeq(rows, 1, 0)

\* getRange(2, 1, resultData.length, 5).setValues(resultData): the rows are
\* written from the second sheet row down, over what is there.
setValues(rows, written) ==
  written \o SubSeq(rows, Len(written) + 1, Len(rows))

aggregate(rows, tz) ==
  resultData({ dateKey(rows[i].timestamp, tz) :
                 i \in { k \in 1..Len(rows) : hasDateTime(rows[k].timestamp) } },
             rows, tz)

\* ------------------------------------------------------------------- state
VARIABLES
  scriptTZ,       \* the script project's time zone (Session.getScriptTimeZone)
  sheet,          \* ledger sheet: "missing", "ok" (expected header), "other"
  ledger,         \* the ledger sheet's data rows, top to bottom
  daily,          \* the daily-profit sheet [exists, rows], what the latest
                  \* calculateDailyProfits returned, and (history) whether
                  \* the sheet held more rows than that run computed
  pc,             \* where the current run stands
  targetDate,     \* the run's target date string
  token,          \* the run's bearer token
  window,         \* the run's [startTimestamp, endTimestamp]
  accounts,       \* filteredAccounts of getTradeHistory
  results,        \* results of getTradeHistory
  rowsToDelete,   \* rowsToDelete of saveTradeHistoryToSheet, not yet deleted
  result,         \* the result object of the run
  requests,       \* history: the HTTP requests the run has issued
  ledgerAtStart,  \* history: the ledger when the run began
  searchFailed,   \* history: account whose trade search failed in the run, or 0
  lookup,         \* history: allAccounts of getTradeHistory
  lastRec,        \* history: the latest whole save [saved, date, results, dropped]
  fresh,          \* history: daily was computed from the present ledger
  call,           \* history: the latest single function call [fn, arg, out]
  triggers,       \* the project's triggers: their handler functions, in the
                  \* order of their creation
  logSheet        \* the execution log sheet [exists, rows]

vars ==
  <<triggers, logSheet, scriptTZ, sheet, ledger, daily, pc, targetDate, token, window, accounts,
    results, rowsToDelete, result, requests, ledgerAtStart, searchFailed,
    lookup, lastRec, fresh, call>>

\* const maxLogRows = 100 of logExecution
maxLogRows == 100

\* The log sheet: whether it exists and its entries below the header, oldest
\* first, each entry standing for the order in which it was written.
LogSheet(n) == [exists |-> TRUE, rows |-> [k \in 1..n |-> k]]

NoLogSheet == [exists |-> FALSE, rows |-> <<>>]

NoResult == [success |-> FALSE, kind |-> "none", accountId |-> 0,
             tradeCount |-> 0, totalProfit |-> 0]

Failure(kind, accountId) ==
  [success |-> FALSE, kind |-> kind, accountId |-> accountId,
   tradeCount |-> 0, totalProfit |-> 0]

Success(tradeCount, profit) ==
  [success |-> TRUE, kind |-> "saved", accountId |-> 0,
   tradeCount |-> tradeCount, totalProfit |-> profit]

NoWindow == [ok |-> FALSE, kind |-> "none"]

NoLookup == [fetched |-> FALSE, list |-> <<>>]

NoRec == [saved |-> FALSE, date |-> BadShapeDate, results |-> <<>>, dropped |-> {},
          cleared |-> FALSE]

NoCall == [fn |-> "none"]

Request(endpoint, accountId) ==
  [endpoint |-> endpoint, accountId |-> accountId, token |-> token, window |-> window]

Init ==
  /\ scriptTZ \in ScriptTimeZones
  /\ sheet \in {"missing", "ok", "other"}
  /\ ledger = <<>>
  /\ daily = [exists |-> FALSE, rows |-> <<>>, returned |-> "none", shrank |-> FALSE]
  /\ pc = "Idle"
  /\ targetDate = BadShapeDate
  /\ token = ""
  /\ window = NoWindow
  /\ accounts = <<>>
  /\ results = <<>>
  /\ rowsToDelete = <<>>
  /\ result = NoResult
  /\ requests = <<>>
  /\ ledgerAtStart = <<>>
  /\ searchFailed = 0
  /\ lookup = NoLookup
  /\ lastRec = NoRec
  /\ fresh = FALSE
  /\ call = NoCall
  /\ triggers = <<>>
  /\ logSheet = NoLogSheet

\* ----------------------------------------------------------------- a run
\* The run ends: every path of getTradeHistory / fetchAndSaveTradeHistory /
\* saveTradeHistoryToSheet that returns a result object goes through here.
Finish(res) ==
  /\ result' = res
  /\ pc' = "Reporting"

\* fetchAndSaveTradeHistory(targetDate) is entered.
StartRun(d) ==
  /\ pc = "Idle"
  /\ Len(ledger) <= MaxLedger
  /\ pc' = "Authenticating"
  /\ targetDate' = d
  /\ ledgerAtStart' = ledger
  /\ UNCHANGED <<triggers, logSheet, scriptTZ, sheet, ledger, daily, token, window, accounts, results,
                 rowsToDelete, result, requests, searchFailed, lookup, lastRec,
                 fresh, call>>

\* Variant of Authenticate: a failed authentication is not thrown, the run
\* goes on without a token.
AuthenticateLenient(resp) ==
  /\ pc = "Authenticating"
  /\ requests' = Append(requests, Request("auth", 0))
  /\ LET r == authenticate(resp)
     IN token' = IF r.ok THEN r.token ELSE ""
  /\ pc' = "ResolvingAccounts"
  /\ UNCHANGED <<triggers, logSheet, scriptTZ, sheet, ledger, daily, targetDate, window, accounts,
                 results, rowsToDelete, result, ledgerAtStart, searchFailed,
                 lookup, lastRec, fresh, call>>

\* getTradeHistory: authenticate(CONFIG.USERNAME, CONFIG.API_KEY); a throw
\* is caught by getTradeHistory's catch and ends the run.
Authenticate(resp) ==
  /\ pc = "Authenticating"
  /\ requests' = Append(requests, Request("auth", 0))
  /\ LET r == authenticate(resp)
     IN IF r.ok
        THEN /\ token' = r.token
             /\ pc' = "ResolvingAccounts"
             /\ UNCHANGED result
        ELSE /\ Finish(Failure(r.kind, 0))
             /\ UNCHANGED token
  /\ UNCHANGED <<triggers, logSheet, scriptTZ, sheet, ledger, daily, targetDate, window, accounts,
                 results, rowsToDelete, ledgerAtStart, searchFailed, lookup,
                 lastRec, fresh, call>>

\* Variant of ResolveAccounts: emptiness is checked once, after the filter,
\* so an all-practice answer is reported like an empty one.
ResolveAccountsOneCheck(resp) ==
  /\ pc = "ResolvingAccounts"
  /\ requests' = Append(requests, Request("accounts", 0))
  /\ LET r == searchAccounts(resp)
         filtered == filterAccounts(r.accounts)
         w == getDateTimestamps(targetDate)
         found == [fetched |-> TRUE, list |-> r.accounts]
     IN IF ~r.ok
        THEN Finish(Failure(r.kind, 0)) /\ UNCHANGED <<accounts, window, lookup>>
        ELSE IF Len(filtered) = 0
        THEN /\ Finish(Failure("NoAccountsFound", 0))
             /\ lookup' = found
             /\ UNCHANGED <<accounts, window>>
        ELSE IF ~w.ok
        THEN /\ Finish(Failure(w.kind, 0))
             /\ lookup' = found
             /\ UNCHANGED <<accounts, window>>
        ELSE /\ accounts' = filtered
             /\ window' = w
             /\ pc' = "FetchingTrades"
             /\ lookup' = found
             /\ UNCHANGED result
  /\ UNCHANGED <<triggers, logSheet, scriptTZ, sheet, ledger, daily, targetDate, token, results,
                 rowsToDelete, ledgerAtStart, searchFailed, lastRec, fresh, call>>

\* getTradeHistory: searchAccounts, the two emptiness checks around the
\* PRACTICE filter, and getDateTimestamps(targetDate).
ResolveAccounts(resp) ==
  /\ pc = "ResolvingAccounts"
  /\ requests' = Append(requests, Request("accounts", 0))
  /\ LET r == searchAccounts(resp)
         filtered == filterAccounts(r.accounts)
         w == getDateTimestamps(targetDate)
         found == [fetched |-> TRUE, list |-> r.accounts]
     IN IF ~r.ok
        THEN Finish(Failure(r.kind, 0)) /\ UNCHANGED <<accounts, window, lookup>>
        ELSE IF Len(r.accounts) = 0
        THEN /\ Finish(Failure("NoAccountsFound", 0))
             /\ lookup' = found
             /\ UNCHANGED <<accounts, window>>
        ELSE IF Len(filtered) = 0
        THEN /\ Finish(Failure("NoTradableAccountsFound", 0))
             /\ lookup' = found
             /\ UNCHANGED <<accounts, window>>
        ELSE IF ~w.ok
        THEN /\ Finish(Failure(w.kind, 0))
             /\ lookup' = found
             /\ UNCHANGED <<accounts, window>>
        ELSE /\ accounts' = filtered
             /\ window' = w
             /\ pc' = "FetchingTrades"
             /\ lookup' = found
             /\ UNCHANGED result
  /\ UNCHANGED <<triggers, logSheet, scriptTZ, sheet, ledger, daily, targetDate, token, results,
                 rowsToDelete, ledgerAtStart, searchFailed, lastRec, fresh, call>>

\* Variant of SearchTradesWith: a failed search is swallowed, the account
\* counts as having no trades and the loop goes on.
SearchTradesIsolating(resp) ==
  LET account == accounts[Len(results) + 1]
      r == searchTrades(resp, account.id)
  IN /\ requests' = Append(requests, Request("trades", account.id))
     /\ results' = Append(results, [accountId |-> account.id,
                                    trades |-> IF r.ok THEN r.trades ELSE <<>>])
     /\ searchFailed' = IF r.ok THEN searchFailed ELSE account.id
     /\ pc' = IF Len(results) + 1 = Len(accounts) THEN "Reconciling"
              ELSE "FetchingTrades"
     /\ UNCHANGED <<triggers, logSheet, scriptTZ, sheet, ledger, daily, targetDate, token, window,
                    accounts, rowsToDelete, result, ledgerAtStart, lookup,
                    lastRec, fresh, call>>

\* Variant of SearchTradesWith: the save starts after the first account's
\* search instead of after the last.
SearchTradesEarlySave(resp) ==
  LET account == accounts[Len(results) + 1]
      r == searchTrades(resp, account.id)
  IN /\ requests' = Append(requests, Request("trades", account.id))
     /\ IF r.ok
        THEN /\ results' = Append(results, [accountId |-> account.id, trades |-> r.trades])
             /\ pc' = "Reconciling"
             /\ UNCHANGED <<result, searchFailed>>
        ELSE /\ Finish(Failure(r.kind, r.accountId))
             /\ searchFailed' = account.id
             /\ UNCHANGED results
     /\ UNCHANGED <<triggers, logSheet, scriptTZ, sheet, ledger, daily, targetDate, token, window,
                    accounts, rowsToDelete, ledgerAtStart, lookup, lastRec, fresh, call>>

\* getTradeHistory: one turn of filteredAccounts.forEach.  A throw of
\* searchTrades leaves the loop and is caught by getTradeHistory's catch;
\* fetchAndSaveTradeHistory then returns without saving.
\* Variant of SearchTradesWith: a failed search is tried once more before
\* the run gives up.
SearchTradesRetrying(resp) ==
  LET account == accounts[Len(results) + 1]
      r == searchTrades(resp, account.id)
      tried == \E i \in 1..Len(requests) :
                 requests[i] = Request("trades", account.id)
  IN /\ requests' = Append(requests, Request("trades", account.id))
     /\ IF r.ok
        THEN /\ results' = Append(results, [accountId |-> account.id, trades |-> r.trades])
             /\ pc' = IF Len(results) + 1 = Len(accounts) THEN "Reconciling"
                      ELSE "FetchingTrades"
             /\ UNCHANGED <<result, searchFailed>>
        ELSE IF tried
        THEN /\ Finish(Failure(r.kind, r.accountId))
             /\ searchFailed' = account.id
             /\ UNCHANGED results
        ELSE UNCHANGED <<pc, result, results, searchFailed>>
     /\ UNCHANGED <<triggers, logSheet, scriptTZ, sheet, ledger, daily, targetDate, token, window,
                    accounts, rowsToDelete, ledgerAtStart, lookup, lastRec, fresh,
                    call>>

\* Variant of SearchTradesWith: a token is asked for again before each
\* trade search.
SearchTradesReauthenticating(resp) ==
  LET account == accounts[Len(results) + 1]
      r == searchTrades(resp, account.id)
  IN /\ requests' = Append(Append(requests, Request("auth", 0)),
                           Request("trades", account.id))
     /\ IF r.ok
        THEN /\ results' = Append(results, [accountId |-> account.id, trades |-> r.trades])
             /\ pc' = IF Len(results) + 1 = Len(accounts) THEN "Reconciling"
                      ELSE "FetchingTrades"
             /\ UNCHANGED <<result, searchFailed>>
        ELSE /\ Finish(Failure(r.kind, r.accountId))
             /\ searchFailed' = account.id
             /\ UNCHANGED results
     /\ UNCHANGED <<triggers, logSheet, scriptTZ, sheet, ledger, daily, targetDate, token, window,
                    accounts, rowsToDelete, ledgerAtStart, lookup, lastRec, fresh,
                    call>>

SearchTradesWith(resp) ==
  LET account == accounts[Len(results) + 1]
      r == searchTrades(resp, account.id)
  IN /\ requests' = Append(requests, Request("trades", account.id))
     /\ IF r.ok
        THEN /\ results' = Append(results, [accountId |-> account.id, trades |-> r.trades])
             /\ pc' = IF Len(results) + 1 = Len(accounts) THEN "Reconciling"
                      ELSE "FetchingTrades"
             /\ UNCHANGED <<result, searchFailed>>
        ELSE /\ Finish(Failure(r.kind, r.accountId))
             /\ searchFailed' = account.id
             /\ UNCHANGED results
     /\ UNCHANGED <<triggers, logSheet, scriptTZ, sheet, ledger, daily, targetDate, token, window,
                    accounts, rowsToDelete, ledgerAtStart, lookup, lastRec, fresh, call>>

SearchTrades ==
  /\ pc = "FetchingTrades"
  /\ \E resp \in TradeResponses(accounts[Len(results) + 1].id,
                                window.startTimestamp, window.endTimestamp) :
       SearchTradesWith(resp)

\* saveTradeHistoryToSheet, up to the end of the scan: the sheet is created
\* if missing, cleared if its header is not the expected one, and the rows
\* of the target date are collected.
BeginSave ==
  /\ pc = "Reconciling"
  /\ sheet' = "ok"
  /\ LET kept == afterHeaderCheck(ledger, sheet)
         found == scanRows(kept, 1, targetDate, scriptTZ)
     IN /\ ledger' = kept
        /\ rowsToDelete' = found
        /\ pc' = IF found = <<>> THEN "Appending" ELSE "Deleting"
  /\ UNCHANGED <<triggers, logSheet, scriptTZ, daily, targetDate, token, window, accounts, results,
                 result, requests, ledgerAtStart, searchFailed, lookup, lastRec,
                 fresh, call>>

\* saveTradeHistoryToSheet: one turn of the deletion loop, last row first.
DeleteRow ==
  /\ pc = "Deleting"
  /\ ledger' = deleteRow(ledger, rowsToDelete[Len(rowsToDelete)])
  /\ rowsToDelete' = SubSeq(rowsToDelete, 1, Len(rowsToDelete) - 1)
  /\ pc' = IF Len(rowsToDelete) = 1 THEN "Appending" ELSE "Deleting"
  /\ UNCHANGED <<triggers, logSheet, scriptTZ, sheet, daily, targetDate, token, window, accounts,
                 results, result, requests, ledgerAtStart, searchFailed, lookup,
                 lastRec, fresh, call>>

\* saveTradeHistoryToSheet: the bulk write of newRows and the result object.
\* formatOk = FALSE: formatHistorySheet throws after the write.
AppendRows(formatOk) ==
  /\ pc = "Appending"
  /\ ledger' = ledger \o newRows(results)
  /\ IF formatOk
     THEN Finish(Success(Len(newRows(results)), totalProfit(newRows(results))))
     ELSE Finish(Failure("SheetError", 0))
  /\ UNCHANGED <<triggers, logSheet, scriptTZ, sheet, daily, targetDate, token, window, accounts,
                 results, rowsToDelete, requests, ledgerAtStart, searchFailed,
                 lookup, lastRec, fresh, call>>

\* Variant of SheetFails: the exception of the sheet call is not caught and
\* the run ends without a result object.
SheetFailsUncaught ==
  /\ pc \in {"Reconciling", "Deleting", "Appending"}
  /\ pc' = "Aborted"
  /\ UNCHANGED <<triggers, logSheet, scriptTZ, sheet, ledger, daily, targetDate, token, window,
                 accounts, results, rowsToDelete, result, requests, ledgerAtStart,
                 searchFailed, lookup, lastRec, fresh, call>>

\* saveTradeHistoryToSheet: a sheet call (getRange, deleteRow, setValues)
\* throws; the catch returns a failure and undoes nothing.
SheetFails ==
  /\ pc \in {"Reconciling", "Deleting", "Appending"}
  /\ Finish(Failure("SheetError", 0))
  /\ UNCHANGED <<triggers, logSheet, scriptTZ, sheet, ledger, daily, targetDate, token, window,
                 accounts, results, rowsToDelete, requests, ledgerAtStart,
                 searchFailed, lookup, lastRec, fresh, call>>

\* The caller receives the result object; the run's locals are gone.
Report ==
  /\ pc = "Reporting"
  /\ pc' = "Idle"
  /\ targetDate' = BadShapeDate
  /\ token' = ""
  /\ window' = NoWindow
  /\ accounts' = <<>>
  /\ results' = <<>>
  /\ rowsToDelete' = <<>>
  /\ result' = NoResult
  /\ requests' = <<>>
  /\ ledgerAtStart' = <<>>
  /\ searchFailed' = 0
  /\ lookup' = NoLookup
  /\ UNCHANGED <<triggers, logSheet, scriptTZ, sheet, ledger, daily, lastRec, fresh, call>>

Next ==
  \/ \E d \in TargetDates : StartRun(d)
  \/ \E resp \in AuthResponses : Authenticate(resp)
  \/ \E resp \in AccountResponses : ResolveAccounts(resp)
  \/ SearchTrades
  \/ BeginSave
  \/ DeleteRow
  \/ \E formatOk \in BOOLEAN : AppendRows(formatOk)
  \/ SheetFails
  \/ Report

\* One run of fetchAndSaveTradeHistory, step by step.
Spec == Init /\ [][Next]_vars

\* The steps of a run that is under way.  Apps Script runs a function to its
\* end: every call it makes (UrlFetchApp.fetch, the sheet calls) returns or
\* throws, and every loop goes over a finite list.
RunSteps ==
  \/ \E resp \in AuthResponses : Authenticate(resp)
  \/ \E resp \in AccountResponses : ResolveAccounts(resp)
  \/ SearchTrades
  \/ BeginSave
  \/ DeleteRow
  \/ \E formatOk \in BOOLEAN : AppendRows(formatOk)
  \/ SheetFails
  \/ Report

\* Runs of fetchAndSaveTradeHistory that are carried on once started.
SpecRun == Init /\ [][Next]_vars /\ WF_vars(RunSteps)

\* ------------------------------------------------- whole runs and aggregation
\* The ids of the trades in a result object's account results.
Ids(res) ==
  UNION { { res[i].trades[j].id : j \in 1..Len(res[i].trades) } : i \in 1..Len(res) }

\* A whole run of fetchAndSaveTradeHistory(d) in which retrieval succeeds
\* with result object res and no sheet call throws.
SaveRun(d, res) ==
  /\ pc = "Idle"
  /\ Len(ledger) <= MaxLedger
  /\ ledger' = saveTradeHistoryToSheet(ledger, sheet, DateStr(d), res, scriptTZ)
  /\ sheet' = "ok"
  /\ lastRec' = [saved |-> TRUE, date |-> DateStr(d), results |-> res,
                 dropped |-> IF lastRec.saved /\ lastRec.date = DateStr(d)
                             THEN Ids(lastRec.results) \ Ids(res) ELSE {},
                 cleared |-> sheet = "other" /\ Len(ledger) > 0]
  /\ fresh' = FALSE
  /\ UNCHANGED <<triggers, logSheet, scriptTZ, daily, pc, targetDate, token, window, accounts,
                 results, rowsToDelete, result, requests, ledgerAtStart,
                 searchFailed, lookup, call>>

\* calculateDailyProfits() when the ledger sheet exists: the daily-profit
\* sheet is created or cleared below its header, and the table is written
\* unless the ledger has no data rows or lacks the expected columns.
\* ui: SpreadsheetApp.getUi() is available (a run from the menu); it throws
\* in a run started by a time-driven trigger.
CalculateDailyProfits(ui) ==
  /\ pc = "Idle"
  /\ IF sheet = "missing"
     THEN /\ daily' = [daily EXCEPT !.returned = "null"]
          /\ UNCHANGED fresh
     ELSE LET cleared == IF daily.exists THEN clearBelowHeader(daily.rows) ELSE <<>>
              alerted == IF ui THEN "null" ELSE "error"
              written == IF Len(ledger) = 0 \/ sheet = "other"
                         THEN cleared
                         ELSE setValues(cleared, aggregate(ledger, scriptTZ))
          IN /\ daily' = [exists |-> TRUE,
                         rows |-> written,
                         returned |-> IF Len(ledger) = 0 \/ sheet = "other"
                                      THEN alerted ELSE "sheet",
                         shrank |-> Len(daily.rows) > Len(aggregate(ledger, scriptTZ))]
             /\ fresh' = TRUE
  /\ UNCHANGED <<triggers, logSheet, scriptTZ, sheet, ledger, pc, targetDate, token, window, accounts,
                 results, rowsToDelete, result, requests, ledgerAtStart,
                 searchFailed, lookup, lastRec, call>>

NextLedger ==
  \/ \E d \in Days : \E res \in RetrievedResults(d) : SaveRun(d, res)
  \/ \E ui \in BOOLEAN : CalculateDailyProfits(ui)

\* Successful runs and aggregations, each as one step.
SpecLedger == Init /\ [][NextLedger]_vars

\* ------------------------------------------------ aggregation on its own
\* Rows a ledger sheet can hold, however they got there (a scheduled run, an
\* import, a hand edit): ISO, local and Date timestamps, a timestamp that is
\* no date, P&L and fee cells with and without a number.
SheetRow(id, timestamp, pnl, fee) ==
  [id |-> id, accountId |-> 1, timestamp |-> timestamp, profitAndLoss |-> pnl,
   fees |-> fee, side |-> "buy", voided |-> "no"]

RowInputs ==
  { SheetRow(1, IsoCell(1, 3), Num(128), Num(2)),
    SheetRow(2, IsoCell(1, 16), Num(1), Null),
    SheetRow(3, LocalCell(1, 10), Num(20), Num(2)),
    SheetRow(4, DateCell(1 * HoursPerDay + 5), Num(0 - 8), Num(1)),
    SheetRow(5, BadCell, Num(20), Num(2)),
    SheetRow(6, IsoCell(2, 10), Null, Num(3)),
    SheetRow(7, IsoCell(2, 3), PrefixText(3), Null),
    SheetRow(8, NumberCell, Num(1), Num(1)) }

LedgerInputs == UNION { [1..n -> RowInputs] : n \in 0..MaxRows }

InitDaily ==
  /\ scriptTZ \in ScriptTimeZones
  /\ sheet \in {"missing", "ok", "other"}
  /\ ledger \in LedgerInputs
  /\ daily = [exists |-> FALSE, rows |-> <<>>, returned |-> "none", shrank |-> FALSE]
  /\ pc = "Idle"
  /\ targetDate = BadShapeDate
  /\ token = ""
  /\ window = NoWindow
  /\ accounts = <<>>
  /\ results = <<>>
  /\ rowsToDelete = <<>>
  /\ result = NoResult
  /\ requests = <<>>
  /\ ledgerAtStart = <<>>
  /\ searchFailed = 0
  /\ lookup = NoLookup
  /\ lastRec = NoRec
  /\ fresh = FALSE
  /\ call = NoCall
  /\ triggers = <<>>
  /\ logSheet = NoLogSheet

NextDaily == \E ui \in BOOLEAN : CalculateDailyProfits(ui)

\* calculateDailyProfits on a ledger sheet of any content.
SpecDaily == InitDaily /\ [][NextDaily]_vars

\* ------------------------------------------------ a save on any ledger
\* Rows for the save: timestamps of either day as the scan dates them, and
\* timestamp cells the scan gets no date from.
SaveRowInputs ==
  { SheetRow(11, IsoCell(1, 3), Num(1), Num(1)),
    SheetRow(12, IsoCell(2, 10), Num(1), Num(1)),
    SheetRow(13, LocalCell(1, 10), Num(1), Num(1)),
    SheetRow(14, DateCell(1 * HoursPerDay + 20), Num(1), Num(1)),
    SheetRow(15, EmptyCell, Num(1), Num(1)),
    SheetRow(16, ShortCell, Num(1), Num(1)),
    SheetRow(17, BadCell, Num(1), Num(1)),
    SheetRow(18, NumberCell, Num(1), Num(1)) }

SaveInputs == UNION { [1..n -> SaveRowInputs] : n \in 0..MaxLedger }

InitSave ==
  /\ scriptTZ \in ScriptTimeZones
  /\ sheet \in {"missing", "ok", "other"}
  /\ ledger \in SaveInputs
  /\ sheet = "missing" => ledger = <<>>
  /\ daily = [exists |-> FALSE, rows |-> <<>>, returned |-> "none", shrank |-> FALSE]
  /\ pc = "Idle"
  /\ targetDate = BadShapeDate
  /\ token = ""
  /\ window = NoWindow
  /\ accounts = <<>>
  /\ results = <<>>
  /\ rowsToDelete = <<>>
  /\ result = NoResult
  /\ requests = <<>>
  /\ ledgerAtStart = <<>>
  /\ searchFailed = 0
  /\ lookup = NoLookup
  /\ lastRec = NoRec
  /\ fresh = FALSE
  /\ call = NoCall
  /\ triggers = <<>>
  /\ logSheet = NoLogSheet

NextSave == \E d \in Days : \E res \in RetrievedResults(d) : SaveRun(d, res)

\* Successful runs on a ledger sheet of any content.
SpecSave == InitSave /\ [][NextSave]_vars

\* --------------------------------------------------- single function calls
\* One call of one function of the script on an input of its own; the call
\* is recorded, nothing else changes.
Called(fn, arg, out) == [fn |-> fn, arg |-> arg, out |-> out]

notCall ==
  <<triggers, logSheet, scriptTZ, sheet, ledger, daily, pc, targetDate, token, window, accounts,
    results, rowsToDelete, result, requests, ledgerAtStart, searchFailed,
    lookup, lastRec, fresh>>

\* Every answer the authentication endpoint can give, field by field.
AuthResponseSpace ==
  [net : BOOLEAN, code : {200, 401, 500}, json : BOOLEAN, object : BOOLEAN,
   success : BOOLEAN, errorCode : {0, 1}, token : {"jwt", ""}]

CallAuthenticate(resp) ==
  /\ call' = Called("authenticate", resp, authenticate(resp))
  /\ UNCHANGED notCall

CallGetDateTimestamps(dateString) ==
  /\ call' = Called("getDateTimestamps", dateString, getDateTimestamps(dateString))
  /\ UNCHANGED notCall

\* Every answer the trade search endpoint can give, field by field.
TradeResponseSpace ==
  [net : BOOLEAN, code : {200, 500}, json : BOOLEAN, object : BOOLEAN,
   success : BOOLEAN, errorCode : {0, 1}, hasTrades : BOOLEAN,
   trades : {<<>>, <<Trade(1, 1)>>}]

CallSearchTrades(resp, accountId) ==
  /\ call' = Called("searchTrades", [resp |-> resp, accountId |-> accountId],
                    searchTrades(resp, accountId))
  /\ UNCHANGED notCall

\* importTradesFromJson: the label written into the side column.
sideInJapanese(side) ==
  IF side = 1 THEN "buy" ELSE IF side = 0 THEN "sell" ELSE "other"

\* The side column of the row each ingestion path writes for a trade of the
\* given side: saveTradeHistoryToSheet and importTradesFromJson.
CallSideLabels(side) ==
  /\ call' = Called("sideLabels", side,
                    [saveTradeHistoryToSheet |->
                       LedgerRow(1, [Trade(1, 1) EXCEPT !.side = side]).side,
                     importTradesFromJson |-> sideInJapanese(side)])
  /\ UNCHANGED notCall

LogInputs == { LogSheet(n) : n \in 0..maxLogRows } \cup {NoLogSheet}

\* Variant of logExecution: one row more is deleted.
logExecutionDeletingOneMore(log, entry) ==
  LET appended == log.rows \o <<entry>>
      currentRows == Len(appended) + 1
  IN [exists |-> TRUE,
      rows |-> IF currentRows > maxLogRows + 1
               THEN SubSeq(appended, currentRows - maxLogRows + 1, Len(appended))
               ELSE appended]

\* logExecution(logData): the sheet is created with its header if missing,
\* the entry is appended, and when the sheet then has more than
\* maxLogRows + 1 rows, deleteRows(2, currentRows - maxLogRows - 1) takes
\* the rows right below the header away.
logExecution(log, entry) ==
  LET appended == log.rows \o <<entry>>
      currentRows == Len(appended) + 1
  IN [exists |-> TRUE,
      rows |-> IF currentRows > maxLogRows + 1
               THEN SubSeq(appended, currentRows - maxLogRows, Len(appended))
               ELSE appended]

CallLogExecution(log) ==
  /\ call' = Called("logExecution", log, logExecution(log, Len(log.rows) + 1))
  /\ UNCHANGED notCall

NextCalls ==
  \/ \E resp \in AuthResponseSpace : CallAuthenticate(resp)
  \/ \E dateString \in TargetDates : CallGetDateTimestamps(dateString)
  \/ \E side \in {0, 1} : CallSideLabels(side)
  \/ \E log \in LogInputs : CallLogExecution(log)
  \/ \E resp \in TradeResponseSpace : \E accountId \in {1, 2} :
       CallSearchTrades(resp, accountId)

\* Single calls of the script's functions.
SpecCalls == Init /\ [][NextCalls]_vars

\* ------------------------------------------------- the project's triggers
\* trigger.getHandlerFunction() === 'dailyHistoryFetch' on some trigger of
\* ScriptApp.getProjectTriggers().
hasTradeHistoryTrigger(trigs) ==
  \E i \in 1..Len(trigs) : trigs[i] = "dailyHistoryFetch"

otherHandler(handler) == handler # "dailyHistoryFetch"

\* setupDailyTrigger(): every trigger of the handler dailyHistoryFetch is
\* deleted, one is created, and logExecution writes its entry.  (The
\* settings sheet that updateTriggerStatus writes to is not part of the
\* state.)
setupDailyTrigger(trigs, log) ==
  [triggers |-> Append(SelectSeq(trigs, otherHandler), "dailyHistoryFetch"),
   logSheet |-> logExecution(log, "setupDailyTrigger")]

\* checkAndSetupTrigger(): setupDailyTrigger() unless a trigger of the
\* handler exists.
checkAndSetupTrigger(trigs, log) ==
  IF hasTradeHistoryTrigger(trigs)
  THEN [triggers |-> trigs, logSheet |-> log]
  ELSE setupDailyTrigger(trigs, log)

\* onOpen().  When the spreadsheet is opened the function runs as a simple
\* trigger, which may not use a service that needs authorization:
\* ScriptApp.getProjectTriggers() throws, and nothing has been done about the
\* triggers.  Run by hand from the editor it goes through.
OnOpen(simpleTrigger) ==
  /\ IF simpleTrigger
     THEN /\ call' = Called("onOpen", simpleTrigger, "throws")
          /\ UNCHANGED <<triggers, logSheet>>
     ELSE LET after == checkAndSetupTrigger(triggers, logSheet)
          IN /\ triggers' = after.triggers
             /\ logSheet' = after.logSheet
             /\ call' = Called("onOpen", simpleTrigger, "returns")
  /\ UNCHANGED <<scriptTZ, sheet, ledger, daily, pc, targetDate, token, window,
                 accounts, results, rowsToDelete, result, requests,
                 ledgerAtStart, searchFailed, lookup, lastRec, fresh>>

\* initialize(): createConfigSheet(), setupDailyTrigger(), then the alert.
Initialize ==
  LET after == setupDailyTrigger(triggers, logSheet)
  IN /\ triggers' = after.triggers
     /\ logSheet' = after.logSheet
     /\ call' = Called("initialize", FALSE, "returns")
     /\ UNCHANGED <<scriptTZ, sheet, ledger, daily, pc, targetDate, token,
                    window, accounts, results, rowsToDelete, result, requests,
                    ledgerAtStart, searchFailed, lookup, lastRec, fresh>>

CheckAndSetupTrigger ==
  LET after == checkAndSetupTrigger(triggers, logSheet)
  IN /\ triggers' = after.triggers
     /\ logSheet' = after.logSheet
     /\ call' = Called("checkAndSetupTrigger", hasTradeHistoryTrigger(triggers),
                       "returns")
     /\ UNCHANGED <<scriptTZ, sheet, ledger, daily, pc, targetDate, token,
                    window, accounts, results, rowsToDelete, result, requests,
                    ledgerAtStart, searchFailed, lookup, lastRec, fresh>>

SetupDailyTrigger ==
  LET after == setupDailyTrigger(triggers, logSheet)
  IN /\ triggers' = after.triggers
     /\ logSheet' = after.logSheet
     /\ call' = Called("setupDailyTrigger", FALSE, "returns")
     /\ UNCHANGED <<scriptTZ, sheet, ledger, daily, pc, targetDate, token,
                    window, accounts, results, rowsToDelete, result, requests,
                    ledgerAtStart, searchFailed, lookup, lastRec, fresh>>

\* The project before any of these functions has run: no trigger, or the one
\* that createDailyTrigger of the daily profit script makes for
\* calculateDailyProfits; no log sheet.
InitTriggers ==
  /\ scriptTZ \in ScriptTimeZones
  /\ sheet \in {"missing", "ok", "other"}
  /\ ledger = <<>>
  /\ daily = [exists |-> FALSE, rows |-> <<>>, returned |-> "none", shrank |-> FALSE]
  /\ pc = "Idle"
  /\ targetDate = BadShapeDate
  /\ token = ""
  /\ window = NoWindow
  /\ accounts = <<>>
  /\ results = <<>>
  /\ rowsToDelete = <<>>
  /\ result = NoResult
  /\ requests = <<>>
  /\ ledgerAtStart = <<>>
  /\ searchFailed = 0
  /\ lookup = NoLookup
  /\ lastRec = NoRec
  /\ fresh = FALSE
  /\ call = NoCall
  /\ triggers \in {<<>>, <<"calculateDailyProfits">>}
  /\ logSheet = NoLogSheet

NextTriggers ==
  \/ \E simpleTrigger \in BOOLEAN : OnOpen(simpleTrigger)
  \/ Initialize
  \/ CheckAndSetupTrigger
  \/ SetupDailyTrigger

\* Any sequence of onOpen, initialize, checkAndSetupTrigger and
\* setupDailyTrigger.
SpecTriggers == InitTriggers /\ [][NextTriggers]_vars

\* ------------------------------------------------------ the daily trigger
\* What the services do during one run of dailyHistoryFetch: each call of
\* logExecution, updateConfigLastRun and MailApp.sendEmail returns (TRUE) or
\* throws (FALSE).  A call the run never reaches is listed as returning.
Services ==
  { s \in [log : BOOLEAN, config : BOOLEAN, mail : BOOLEAN, logMail : BOOLEAN,
           logCatch : BOOLEAN, errorMail : BOOLEAN, logErrorMail : BOOLEAN] :
      LET tried == s.log /\ s.config /\ (s.mail \/ s.logMail)
      IN /\ ~s.log => s.config
         /\ ~(s.log /\ s.config) => s.mail
         /\ s.mail => s.logMail
         /\ (tried \/ ~s.logCatch) => s.errorMail
         /\ s.errorMail => s.logErrorMail
         /\ tried => s.logCatch }

\* sendNotificationEmail(result, targetDate): a failure to send is caught
\* and logged with logExecution, which is called inside the catch block.
sendNotificationEmail(mailOk, logOk) ==
  IF mailOk THEN "sent" ELSE IF logOk THEN "logged" ELSE "throws"

\* sendErrorEmail(errorMessage): the same shape.
sendErrorEmail(mailOk, logOk) ==
  IF mailOk THEN "sent" ELSE IF logOk THEN "logged" ELSE "throws"

\* dailyHistoryFetch once fetchAndSaveTradeHistory has returned `computed`:
\* the log entry, the settings sheet and the notification are inside the
\* try block; its catch logs, sends the error mail and returns a failure of
\* its own; what throws inside the catch leaves the function.
dailyHistoryFetch(computed, s) ==
  IF s.log /\ s.config /\ sendNotificationEmail(s.mail, s.logMail) # "throws"
  THEN [threw |-> FALSE, returned |-> computed]
  ELSE IF s.logCatch /\ sendErrorEmail(s.errorMail, s.logErrorMail) # "throws"
       THEN [threw |-> FALSE, returned |-> Failure("TriggerError", 0)]
       ELSE [threw |-> TRUE, returned |-> NoResult]

\* What fetchAndSaveTradeHistory can come back with in a run of the
\* trigger: a save of a retrieved result object, or a retrieval failure.
Fetched(d) ==
  { [success |-> TRUE, kind |-> "saved", results |-> res] : res \in RetrievedResults(d) }
  \cup { [success |-> FALSE, kind |-> "AuthError", results |-> <<>>] }

\* One run of dailyHistoryFetch() for yesterday's date d.
DailyHistoryFetch(d, fetched, s) ==
  /\ pc = "Idle"
  /\ Len(ledger) <= MaxLedger
  /\ ledger' = IF fetched.success
               THEN saveTradeHistoryToSheet(ledger, sheet, DateStr(d), fetched.results, scriptTZ)
               ELSE ledger
  /\ sheet' = IF fetched.success THEN "ok" ELSE sheet
  /\ LET computed == IF fetched.success
                     THEN Success(Len(newRows(fetched.results)),
                                  totalProfit(newRows(fetched.results)))
                     ELSE Failure(fetched.kind, 0)
         out == dailyHistoryFetch(computed, s)
     IN call' = Called("dailyHistoryFetch",
                       [notifying |-> s.log /\ s.config, mailOk |-> s.mail,
                        logOk |-> s.logMail],
                       [computed |-> computed, threw |-> out.threw,
                        returned |-> out.returned])
  /\ fresh' = FALSE
  /\ UNCHANGED <<triggers, logSheet, scriptTZ, daily, pc, targetDate, token, window, accounts,
                 results, rowsToDelete, result, requests, ledgerAtStart,
                 searchFailed, lookup, lastRec>>

NextFetch ==
  \E d \in Days : \E fetched \in Fetched(d) : \E s \in Services :
    DailyHistoryFetch(d, fetched, s)

\* Runs of the daily trigger, each as one step.
SpecFetch == Init /\ [][NextFetch]_vars

\* ------------------------------------------------------------ properties
\* The accounts a trade search was requested for in the current run.
Searched ==
  { requests[i].accountId : i \in { k \in 1..Len(requests) : requests[k].endpoint = "trades" } }

\* The rows whose stored timestamp spells the given date.
RowsOfDay(rows, date) ==
  SelectSeq(rows, LAMBDA r : DateStr(r.timestamp.day) = date)

HasRow(rows, row) == \E k \in 1..Len(rows) : rows[k] = row

\* Errors that end a run before the save: authentication, account lookup,
\* empty account sets, the target date, a trade search.
RetrievalErrors ==
  {"FetchError", "TypeError", "AuthError", "AuthParseError", "AccountSearchError",
   "AccountParseError", "NoAccountsFound", "NoTradableAccountsFound",
   "InvalidDateFormat", "RangeError", "TradeSearchError", "TradeParseError"}

RetrievalFailed == result.kind \in RetrievalErrors \/ searchFailed # 0

\* The classification a result object carries: success or not.
Outcome(res) == IF res.success THEN "success" ELSE "failed"

Phase(p) == IF p \in {"Reconciling", "Deleting", "Appending"} THEN "Reconciling" ELSE p

Rank(p) ==
  CASE p = "Idle" -> 0 [] p = "Authenticating" -> 1 [] p = "ResolvingAccounts" -> 2
    [] p = "FetchingTrades" -> 3 [] p = "Reconciling" -> 4 [] OTHER -> 5

AllSearched ==
  /\ Len(results) = Len(accounts)
  /\ \A i \in 1..Len(accounts) : accounts[i].id \in Searched

\* C1 (as claimed): saving the same result object for the same target date a
\* second time in succession leaves the rows of that date, and the number of
\* ledger rows, as the first save left them.
C1_SaveTwiceIsSaveOnce ==
  [][ (lastRec.saved /\ lastRec'.saved /\ lastRec'.date = lastRec.date
       /\ lastRec'.results = lastRec.results)
      => /\ RowsOfDay(ledger', lastRec.date) = RowsOfDay(ledger, lastRec.date)
         /\ Len(ledger') = Len(ledger) ]_vars

\* C2 (as claimed): after any sequence of successful runs no two ledger rows
\* carry the same trade id on the same stored calendar date.
C2_UniqueDateAndId ==
  \A i, j \in 1..Len(ledger) :
    i < j => ~(/\ ledger[i].id = ledger[j].id
               /\ ledger[i].timestamp.day = ledger[j].timestamp.day)

C5_NoDeletionOnFailedRetrieval ==
  /\ (pc = "Reporting" /\ RetrievalFailed) => ledger = ledgerAtStart
  /\ pc \in {"Authenticating", "ResolvingAccounts", "FetchingTrades"}
       => ledger = ledgerAtStart

\* C5 witness: a trade search failed while the ledger held rows of the
\* target date.
C5_Witness ==
  /\ pc = "Reporting"
  /\ result.kind = "TradeSearchError"
  /\ RowsOfDay(ledgerAtStart, targetDate) # <<>>

\* C6 (as claimed): when a sheet call throws during the save, the run is
\* reported failed and the ledger's rows of the target date are those it had
\* when the run began.
C6_NoPartialDeletes ==
  (pc = "Reporting" /\ result.kind = "SheetError")
  => /\ ~result.success
     /\ RowsOfDay(ledger, targetDate) = RowsOfDay(ledgerAtStart, targetDate)

\* The ledger without the rows of the trades the latest save dropped from
\* its date.
WithoutDropped ==
  SelectSeq(ledger, LAMBDA r : ~(r.id \in lastRec.dropped
                                 /\ DateStr(r.timestamp.day) = lastRec.date))

\* The sum of the fees of ledger rows, an absent fee counting as 0.
RECURSIVE SumFees(_)
SumFees(rows) ==
  IF rows = <<>> THEN 0
  ELSE (IF Head(rows).fees.present THEN Head(rows).fees.value ELSE 0)
       + SumFees(Tail(rows))

\* The aggregate row of a date computed from the trades of one result object.
ReferenceRow(date, res) ==
  [date |-> date, count |-> Len(newRows(res)),
   totalProfitLoss |-> totalProfit(newRows(res)),
   totalFees |-> SumFees(newRows(res)),
   netProfit |-> totalProfit(newRows(res)) - SumFees(newRows(res))]

\* C7 (as claimed): after save(date, A), save(date, B) and an aggregation,
\* the table's row for date is computed from B's trades only (and there is
\* none when B has no trades), and no trade of A that is absent from B
\* contributes to the table: the table is the aggregation of the ledger
\* without those trades' rows.
C7_AggregateSeesOnlyReplacement ==
  (fresh /\ lastRec.saved /\ lastRec.dropped # {} /\ daily.exists)
  => /\ daily.rows = aggregate(WithoutDropped, scriptTZ)
     /\ \A i \in 1..Len(daily.rows) :
          daily.rows[i].date = lastRec.date
            => daily.rows[i] = ReferenceRow(lastRec.date, lastRec.results)
     /\ Ids(lastRec.results) # {}
          => \E i \in 1..Len(daily.rows) : daily.rows[i].date = lastRec.date

\* C8: once authentication has failed, the run issues no further request
\* (no account search, no trade search), never changes the ledger, and is at
\* its report with a failure.
C8_AuthFailureEndsRun ==
  (pc \notin {"Idle", "Authenticating"} /\ token = "")
  => /\ pc = "Reporting"
     /\ Len(requests) = 1
     /\ requests[1].endpoint = "auth"
     /\ ledger = ledgerAtStart
     /\ ~result.success

\* C8 witness: the credentials were rejected while the ledger held rows.
C8_Witness ==
  /\ pc = "Reporting"
  /\ result.kind = "AuthError"
  /\ token = ""
  /\ Len(ledgerAtStart) > 0

\* C9: within a run the phases only move forward in the order
\* Authenticating, ResolvingAccounts, FetchingTrades, Reconciling, Reporting;
\* a run begins with Authenticating and ends only from Reporting; and the
\* ledger changes only while Reconciling, after every tradable account's
\* search has completed.
C9_PhaseOrder ==
  [][ /\ pc = "Idle" => pc' \in {"Idle", "Authenticating"}
      /\ pc \notin {"Idle", "Reporting"} => Rank(Phase(pc')) >= Rank(Phase(pc))
      /\ pc = "Reporting" => pc' \in {"Reporting", "Idle"}
      /\ ledger' # ledger => (Phase(pc) = "Reconciling" /\ AllSearched) ]_vars

\* C9 witness: a run over two accounts changed the ledger and reports.
C9_Witness ==
  /\ pc = "Reporting"
  /\ result.success
  /\ Len(accounts) = 2
  /\ ledger # ledgerAtStart

\* C10: when the provider returns an empty account list the run ends with
\* the no-accounts outcome, and when it returns accounts that the practice
\* filter removes entirely the run ends with the different no-tradable-
\* accounts outcome; in both cases no trade search was issued and the
\* ledger is unchanged.
C10_EmptyAccountSets ==
  (pc = "Reporting" /\ lookup.fetched)
  => /\ lookup.list = <<>> => result.kind = "NoAccountsFound"
     /\ (lookup.list # <<>> /\ \A i \in 1..Len(lookup.list) : ~isTradable(lookup.list[i]))
          => result.kind = "NoTradableAccountsFound"
     /\ result.kind \in {"NoAccountsFound", "NoTradableAccountsFound"}
          => /\ ~result.success
             /\ Searched = {}
             /\ ledger = ledgerAtStart

\* C10 witness: the provider returned several accounts, none tradable, while
\* the ledger held rows.
C10_Witness ==
  /\ pc = "Reporting"
  /\ result.kind = "NoTradableAccountsFound"
  /\ Len(lookup.list) >= 2
  /\ Len(ledgerAtStart) > 0

\* The four conditions of a successful authentication, read off the fields
\* of a response.
FourPart(resp) ==
  resp.code = 200 /\ resp.success /\ resp.errorCode = 0 /\ resp.token # ""

\* The response has the four: a body that is not an object has no fields.
HasFourPart(resp) == resp.json /\ resp.object /\ FourPart(resp)

\* C11 (as claimed): authenticate returns a token exactly for the received
\* responses that meet the four conditions, and for every received response
\* that misses one of them it raises the authentication error.
C11_FourPartElseAuthError ==
  (call.fn = "authenticate" /\ call.arg.net)
  => /\ call.out.ok <=> HasFourPart(call.arg)
     /\ ~HasFourPart(call.arg) => (~call.out.ok /\ call.out.kind = "AuthError")

\* C11 (amended): authenticate returns the response's token exactly when the
\* body parses to an object and the four conditions hold; in every other
\* case it throws and returns no token.  The body is parsed before anything
\* is compared: a body that does not parse raises the parse error and a null
\* body a TypeError, whatever the HTTP status; only a body that parses to an
\* object and misses one of the four raises the authentication error.
C11_FourPartToken ==
  call.fn = "authenticate"
  => LET resp == call.arg
         out == call.out
         readable == resp.net /\ resp.json /\ resp.object
     IN /\ out.ok <=> (readable /\ FourPart(resp))
        /\ out.ok => (out.token = resp.token /\ out.token # "")
        /\ ~out.ok => "token" \notin DOMAIN out
        /\ (readable /\ ~FourPart(resp)) => (~out.ok /\ out.kind = "AuthError")
        /\ (resp.net /\ ~resp.json) => (~out.ok /\ out.kind = "AuthParseError")
        /\ (resp.net /\ resp.json /\ ~resp.object) => (~out.ok /\ out.kind = "TypeError")

\* HTTP 200 with success false was answered with the authentication error.
C11_Witness ==
  /\ call.fn = "authenticate"
  /\ call.arg = [GoodAuth EXCEPT !.success = FALSE]
  /\ call.out = Throw("AuthError")

\* C12: when the authentication response body cannot be parsed as JSON the
\* run ends with the response-parse error as its result, when the body
\* parses to an object that is rejected the run ends with the authentication
\* error, and the two results differ: the result object handed to the
\* report tells the one from the other.
C12_ParseErrorIsItsOwnKind ==
  [][\A resp \in AuthResponses :
       Authenticate(resp)
       => /\ (resp.net /\ ~resp.json)
             => (pc' = "Reporting" /\ result' = Failure("AuthParseError", 0))
          /\ (resp.net /\ resp.json /\ resp.object /\ ~FourPart(resp))
             => (pc' = "Reporting" /\ result' = Failure("AuthError", 0))
          /\ Failure("AuthParseError", 0) # Failure("AuthError", 0)
          /\ result'.kind = "AuthParseError" => (resp.net /\ ~resp.json)]_vars

\* A run is about to report the response-parse error of its authentication.
C12_Witness ==
  /\ pc = "Reporting"
  /\ result = Failure("AuthParseError", 0)
  /\ Len(requests) = 1 /\ requests[1].endpoint = "auth"

\* The same letter, in either case.
SameLetter(c, upper) ==
  \/ c = upper
  \/ <<c, upper>> \in {<<"p", "P">>, <<"r", "R">>, <<"a", "A">>, <<"c", "C">>,
                       <<"t", "T">>, <<"i", "I">>, <<"e", "E">>}

\* The account has a string name that does not begin with PRACTICE in any
\* mix of cases.
NamedAndNotPractice(account) ==
  /\ account.name.isString
  /\ ~(/\ Len(account.name.chars) >= Len(PRACTICE)
       /\ \A i \in 1..Len(PRACTICE) : SameLetter(account.name.chars[i], PRACTICE[i]))

\* C13: the accounts fanned out to trade search are exactly the returned
\* accounts whose name is a string not starting with PRACTICE compared
\* case-insensitively, in the order returned; an account without a string
\* name is excluded, and no trade search is requested for any other account.
C13_PracticeFilter ==
  (lookup.fetched /\ pc \in {"FetchingTrades", "Reconciling", "Deleting", "Appending"})
  => /\ accounts = SelectSeq(lookup.list, NamedAndNotPractice)
     /\ \A i \in 1..Len(lookup.list) :
          ~lookup.list[i].name.isString
            => \A k \in 1..Len(accounts) : accounts[k] # lookup.list[i]
     /\ Searched \subseteq { accounts[k].id : k \in 1..Len(accounts) }

\* Every kind of account was returned (upper- and lower-case practice names,
\* a missing name, two tradable ones) and the trade searches are done.
C13_Witness ==
  /\ pc = "Reconciling"
  /\ lookup.fetched /\ lookup.list = AccountUniverse
  /\ Searched = {1, 2}

\* The three conditions of a successful trade search, read off a response.
ThreePart(resp) == resp.code = 200 /\ resp.success /\ resp.errorCode = 0

\* The response has the three: a body that is not an object has no fields.
HasThreePart(resp) == resp.json /\ resp.object /\ ThreePart(resp)

\* C14 (as claimed): for a received response searchTrades returns a sequence
\* exactly when the three conditions hold, the empty one when the trades
\* field is absent, and for every other response it raises an error that
\* names the account.
C14_SequenceOrErrorNamingAccount ==
  (call.fn = "searchTrades" /\ call.arg.resp.net)
  => LET resp == call.arg.resp
         out == call.out
     IN /\ out.ok <=> HasThreePart(resp)
        /\ (out.ok /\ ~resp.hasTrades) => out.trades = <<>>
        /\ ~out.ok => out.accountId = call.arg.accountId

\* C14 (amended): searchTrades returns a sequence exactly when the body
\* parses to an object and the three conditions hold: the trades field, or
\* the empty sequence when the field is absent or empty.  Otherwise it
\* throws: an error naming the account when the body is not JSON or is an
\* object that misses one of the three; a TypeError that does not name the
\* account when the body is null; and the exception of the fetch itself,
\* which does not name the account, when no response arrives.
C14_SearchTradesContract ==
  call.fn = "searchTrades"
  => LET resp == call.arg.resp
         id == call.arg.accountId
         out == call.out
         readable == resp.net /\ resp.json /\ resp.object
     IN /\ out.ok <=> (readable /\ ThreePart(resp))
        /\ out.ok => out.trades = (IF resp.hasTrades THEN resp.trades ELSE <<>>)
        /\ (resp.net /\ ~resp.json) => out = ThrowFor("TradeParseError", id)
        /\ (readable /\ ~ThreePart(resp)) => out = ThrowFor("TradeSearchError", id)
        /\ (resp.net /\ resp.json /\ ~resp.object)
             => (~out.ok /\ out.kind = "TypeError" /\ out.accountId # id)
        /\ ~resp.net => (~out.ok /\ out.kind = "FetchError" /\ out.accountId # id)

\* A successful response without a trades field was answered with the
\* empty sequence.
C14_Witness ==
  /\ call.fn = "searchTrades"
  /\ call.arg.resp = [GoodTrades(<<>>) EXCEPT !.hasTrades = FALSE]
  /\ call.out = [ok |-> TRUE, trades |-> <<>>]

\* The trade searches the current run has requested, in order.
TradeRequests == SelectSeq(requests, LAMBDA q : q.endpoint = "trades")

\* C15: in a run whose retrieval has gone through without error, exactly one
\* trade search has been requested for each tradable account, none for a
\* returned account that the filter excludes, and every search carries the
\* same window: 00:00 to the last instant of the target date, UTC.  While
\* retrieval is under way no account has been searched twice.
C15_OneRequestPerAccount ==
  /\ pc = "FetchingTrades"
       => \A i, j \in 1..Len(TradeRequests) :
            TradeRequests[i].accountId = TradeRequests[j].accountId => i = j
  /\ pc \in {"Reconciling", "Deleting", "Appending"}
       => /\ \A k \in 1..Len(accounts) :
               Cardinality({ i \in 1..Len(TradeRequests) :
                               TradeRequests[i].accountId = accounts[k].id }) = 1
          /\ Len(TradeRequests) = Len(accounts)
          /\ \A k \in 1..Len(lookup.list) :
               ~NamedAndNotPractice(lookup.list[k])
                 => \A i \in 1..Len(TradeRequests) :
                      TradeRequests[i].accountId # lookup.list[k].id
          /\ \A i \in 1..Len(TradeRequests) :
               /\ TradeRequests[i].window.ok
               /\ TradeRequests[i].window.startTimestamp = targetDate.day * HoursPerDay
               /\ TradeRequests[i].window.endTimestamp
                    = targetDate.day * HoursPerDay + (HoursPerDay - 1)
               /\ TradeRequests[i].window = TradeRequests[1].window

\* Retrieval has gone through for two tradable accounts out of a longer list.
C15_Witness ==
  /\ pc = "Reconciling"
  /\ Len(accounts) = 2 /\ Len(TradeRequests) = 2
  /\ Len(lookup.list) > 2

\* C16: for a valid calendar date string getDateTimestamps returns the
\* window from the first instant to the last instant of that date in UTC:
\* the UTC date of the start and of the end are the input, and the start is
\* before the end.
C16_WindowOfValidDate ==
  (call.fn = "getDateTimestamps" /\ call.arg.wellFormed /\ call.arg.calendar)
  => /\ call.out.ok
     /\ call.out.startTimestamp = call.arg.day * HoursPerDay
     /\ call.out.endTimestamp = (call.arg.day + 1) * HoursPerDay - 1
     /\ formatDate(call.out.startTimestamp, 0) = call.arg
     /\ formatDate(call.out.endTimestamp, 0) = call.arg
     /\ call.out.startTimestamp < call.out.endTimestamp

\* The window of a valid date was computed.
C16_Witness ==
  /\ call.fn = "getDateTimestamps"
  /\ call.arg = DateStr(2)
  /\ call.out.ok

\* C17 (as claimed): for every string that is not a well-formed calendar
\* date, of the wrong shape or of the right shape with an impossible month
\* or day, getDateTimestamps fails with the invalid-date-format error, with
\* no other error, and returns no window.
C17_MalformedIsInvalidDateFormat ==
  (call.fn = "getDateTimestamps" /\ ~(call.arg.wellFormed /\ call.arg.calendar))
  => call.out = Throw("InvalidDateFormat")

\* The table has just been computed from a ledger sheet with the expected
\* columns and at least one data row.
Aggregated == fresh /\ daily.exists /\ sheet = "ok" /\ Len(ledger) > 0

\* C18 (as claimed): the table calculateDailyProfits writes is the same,
\* row for row (dates, counts, P&L totals, fee totals, net profits, order),
\* for every permutation of the ledger's rows.
C18_OrderIndependent ==
  Aggregated
  => \A p \in Permutations(1..Len(ledger)) :
       aggregate([i \in 1..Len(ledger) |-> ledger[p[i]]], scriptTZ) = daily.rows

\* The ledger rows that have a date, and those among them of one date key.
ParseableRows == SelectSeq(ledger, LAMBDA r : r.timestamp.kind \in {"iso", "local", "date"})

RowsOfKey(key) == SelectSeq(ParseableRows, LAMBDA r : dateKey(r.timestamp, scriptTZ) = key)

\* C19: the table written by calculateDailyProfits has exactly one row for
\* each distinct date key among the ledger rows that have a date, none for
\* any other date, and its rows are in strictly ascending order of date.
C19_OneRowPerDateAscending ==
  Aggregated
  => /\ { daily.rows[i].date : i \in 1..Len(daily.rows) }
          = { dateKey(ParseableRows[k].timestamp, scriptTZ) : k \in 1..Len(ParseableRows) }
     /\ \A i, j \in 1..Len(daily.rows) :
          i < j => daily.rows[i].date.day < daily.rows[j].date.day

\* A ledger whose first dated row is of a later date than its second one
\* was aggregated into two rows.
C19_Witness ==
  /\ Aggregated
  /\ Len(daily.rows) = 2
  /\ Len(ParseableRows) >= 2
  /\ dateKey(ParseableRows[1].timestamp, scriptTZ).day
       > dateKey(ParseableRows[2].timestamp, scriptTZ).day

\* The sum of a sequence of cells as the script's numbers add up, first
\* cell first, a cell without a number counting as 0.
RECURSIVE SumInOrder(_)
SumInOrder(cells) ==
  IF cells = <<>> THEN 0
  ELSE LET last == cells[Len(cells)]
       IN Round(SumInOrder(SubSeq(cells, 1, Len(cells) - 1))
                + (IF last.present THEN last.value ELSE 0))

\* C20: for every date in the table, the count is the number of ledger rows
\* that have that date, the P&L total is the sum of their P&L cells and the
\* fee total the sum of their fee cells, added up in ledger order, and the
\* net profit is the P&L total minus the fee total.
C20_ReferenceFold ==
  Aggregated
  => \A i \in 1..Len(daily.rows) :
       LET row == daily.rows[i]
           of == RowsOfKey(row.date)
       IN /\ row.count = Len(of)
          /\ row.count > 0
          /\ row.totalProfitLoss = SumInOrder([k \in 1..Len(of) |-> of[k].profitAndLoss])
          /\ row.totalFees = SumInOrder([k \in 1..Len(of) |-> of[k].fees])
          /\ row.netProfit = Round(row.totalProfitLoss - row.totalFees)

\* Rows (10, 1) and (-4, 0.5) of one date, in units of 0.5, gave count 2,
\* P&L 6, fees 1.5, net 4.5.
C20_Witness ==
  /\ Aggregated
  /\ Len(ledger) = 2
  /\ ledger[1].profitAndLoss = Num(20) /\ ledger[1].fees = Num(2)
  /\ ledger[2].profitAndLoss = Num(0 - 8) /\ ledger[2].fees = Num(1)
  /\ daily.rows = <<[date |-> DateStr(1), count |-> 2, totalProfitLoss |-> 12,
                     totalFees |-> 3, netProfit |-> 9]>>

\* The ledger with the P&L cell and the fee cell of row i replaced.
WithCells(i, pnl, fee) ==
  [ledger EXCEPT ![i].profitAndLoss = pnl, ![i].fees = fee]

\* The number a cell stands for when only numbers count: itself if it is a
\* number, else 0.
NumberElse0(cell) == IF cell.whole THEN Num(cell.value) ELSE Num(0)

\* The number parseFloat(cell) || 0 makes of a cell.
LeadingNumberElse0(cell) == IF cell.present THEN Num(cell.value) ELSE Num(0)

\* The table counts row i under its date.
Counted(i) ==
  \E k \in 1..Len(daily.rows) :
    /\ daily.rows[k].date = dateKey(ledger[i].timestamp, scriptTZ)
    /\ daily.rows[k].count
         = Cardinality({ j \in 1..Len(ledger) :
                           /\ hasDateTime(ledger[j].timestamp)
                           /\ dateKey(ledger[j].timestamp, scriptTZ)
                                = dateKey(ledger[i].timestamp, scriptTZ) })

\* C21 (as claimed): a dated ledger row whose P&L or fee cell is not a
\* number (null, empty, text) adds 0 for that cell and is still counted: the
\* table is the one the ledger would give with 0 in place of that cell.
C21_NotANumberAddsZero ==
  Aggregated
  => \A i \in 1..Len(ledger) :
       (hasDateTime(ledger[i].timestamp)
        /\ (~ledger[i].profitAndLoss.whole \/ ~ledger[i].fees.whole))
       => /\ Counted(i)
          /\ daily.rows = aggregate(WithCells(i, NumberElse0(ledger[i].profitAndLoss),
                                              NumberElse0(ledger[i].fees)), scriptTZ)

\* C21 (amended): a dated ledger row whose P&L or fee cell is not a number
\* is still counted, and adds for that cell what parseFloat reads: 0 when
\* the cell is null, empty or a text that does not begin with a number, and
\* the leading number when the cell is a text that begins with one.
C21_MissingAddsWhatParseFloatReads ==
  Aggregated
  => \A i \in 1..Len(ledger) :
       (hasDateTime(ledger[i].timestamp)
        /\ (~ledger[i].profitAndLoss.whole \/ ~ledger[i].fees.whole))
       => /\ Counted(i)
          /\ daily.rows = aggregate(WithCells(i, LeadingNumberElse0(ledger[i].profitAndLoss),
                                              LeadingNumberElse0(ledger[i].fees)), scriptTZ)
          /\ ~ledger[i].profitAndLoss.present
               => daily.rows = aggregate(WithCells(i, Num(0),
                                                   LeadingNumberElse0(ledger[i].fees)), scriptTZ)

\* A single row without a P&L number was aggregated: count 1, P&L 0.
C21_Witness ==
  /\ Aggregated
  /\ Len(ledger) = 1
  /\ ledger[1].profitAndLoss = Null
  /\ Len(daily.rows) = 1
  /\ daily.rows[1].count = 1 /\ daily.rows[1].totalProfitLoss = 0

\* The timestamp cell cannot be turned into a date: a string that is no
\* date, an empty cell, a value of another type.
NoDateIn(cell) == cell.kind \in {"text", "number"}

\* C22: when the ledger holds rows whose timestamp cell cannot be turned
\* into a date, calculateDailyProfits still completes and writes its table,
\* and the table is the one the ledger gives without those rows: exactly
\* they are skipped.
C22_BadRowsAreSkipped ==
  (fresh /\ sheet = "ok" /\ \E i \in 1..Len(ledger) : NoDateIn(ledger[i].timestamp))
  => /\ daily.exists
     /\ daily.rows = aggregate(SelectSeq(ledger, LAMBDA r : ~NoDateIn(r.timestamp)),
                               scriptTZ)
     /\ \A k \in 1..Len(daily.rows) :
          daily.rows[k].count
            = Cardinality({ j \in 1..Len(ledger) :
                              /\ ~NoDateIn(ledger[j].timestamp)
                              /\ dateKey(ledger[j].timestamp, scriptTZ) = daily.rows[k].date })

\* A ledger with a text timestamp, a number timestamp and one dated row was
\* aggregated into the one row of the dated row.
C22_Witness ==
  /\ Aggregated
  /\ Len(ledger) = 3
  /\ \E i \in 1..3 : ledger[i].timestamp = BadCell
  /\ \E i \in 1..3 : ledger[i].timestamp = NumberCell
  /\ Len(daily.rows) = 1 /\ daily.rows[1].count = 1

\* C23 (as claimed): when the ledger sheet holds only its header,
\* calculateDailyProfits completes normally and yields an empty table: the
\* daily sheet exists with no rows and the call returns it, neither failing
\* nor returning nothing.
C23_EmptyLedgerGivesEmptyTable ==
  (fresh /\ sheet = "ok" /\ Len(ledger) = 0)
  => /\ daily.exists
     /\ daily.rows = <<>>
     /\ daily.returned = "sheet"

\* C24: after any sequence of saves and aggregations, the table left by an
\* aggregation is the aggregation of the ledger's present rows alone, and
\* empty when the ledger has none: every date in it has ledger rows now, no
\* row of the table that was there before survives on its own, and a second
\* aggregation of an unchanged ledger leaves the same table.
C24_RecomputedFromScratch ==
  (fresh /\ sheet = "ok")
  => /\ daily.rows = (IF Len(ledger) = 0 THEN <<>> ELSE aggregate(ledger, scriptTZ))
     /\ \A k \in 1..Len(daily.rows) :
          \E i \in 1..Len(ledger) :
            /\ hasDateTime(ledger[i].timestamp)
            /\ dateKey(ledger[i].timestamp, scriptTZ) = daily.rows[k].date
     /\ Len(daily.rows) <= Len(ledger)

\* An aggregation found a longer table on the sheet than the one it left.
C24_Witness ==
  /\ fresh /\ sheet = "ok"
  /\ daily.returned = "sheet"
  /\ daily.shrank

\* C25 (as claimed): a successful run whose every account search returned
\* no trade, for a target date that had n >= 1 ledger rows when the run
\* began, leaves no row of that date, removes exactly those n rows, appends
\* none and reports zero added trades.
C25_EmptyReplacementEmptiesDate ==
  (/\ pc = "Reporting" /\ result.success
   /\ newRows(results) = <<>>
   /\ RowsOfDay(ledgerAtStart, targetDate) # <<>>)
  => /\ RowsOfDay(ledger, targetDate) = <<>>
     /\ Len(ledger) = Len(ledgerAtStart) - Len(RowsOfDay(ledgerAtStart, targetDate))
     /\ \A k \in 1..Len(ledger) : HasRow(ledgerAtStart, ledger[k])
     /\ result.tradeCount = 0

\* C26 (as claimed): when the notification e-mail of a run cannot be sent,
\* also when logging that failure fails too, dailyHistoryFetch returns the
\* result fetchAndSaveTradeHistory had computed.
C26_NotificationFailureKeepsResult ==
  (call.fn = "dailyHistoryFetch" /\ call.arg.notifying /\ ~call.arg.mailOk)
  => /\ ~call.out.threw
     /\ call.out.returned = call.out.computed

\* The result objects of fetchAndSaveTradeHistory: a success flag with the
\* outcome it stands for.
ResultObject(res) ==
  \/ res.success /\ res.kind = "saved"
  \/ ~res.success /\ res.kind \in RetrievalErrors \cup {"SheetError"}

\* C27: every run of fetchAndSaveTradeHistory that has begun comes to the
\* point where a result object is returned, whatever the provider answers
\* and whichever sheet call fails; the object carries a success flag and the
\* outcome; no step of a run leaves it any other way.
C27_EveryRunEndsInAReport ==
  /\ [](pc \in {"Idle", "Authenticating", "ResolvingAccounts", "FetchingTrades",
                "Reconciling", "Deleting", "Appending", "Reporting"})
  /\ [](pc = "Reporting" => ResultObject(result))
  /\ [](pc = "Idle" => result = NoResult)
  /\ (pc # "Idle") ~> (pc = "Reporting")

\* A run ended by a failing sheet call after rows had been deleted.
C27_Witness ==
  /\ pc = "Reporting"
  /\ result = Failure("SheetError", 0)
  /\ Len(ledger) < Len(ledgerAtStart)

\* The row is one the scan dates to the target date.
DatedTo(row, date, tz) ==
  /\ row.timestamp.kind \in {"iso", "local", "date"}
  /\ tradeDateStr(row.timestamp, tz) = date

\* lastRec of the state after a save names the save's target date and result
\* object.  What a save for the date is to leave of the rows: those not dated to it,
\* as they were and in their order, and after them the new rows.
AllButDate(rows, date, tz, res) ==
  SelectSeq(rows, LAMBDA r : ~DatedTo(r, date, tz)) \o newRows(res)

\* C28 (as claimed): on every ledger sheet a successful save for a target
\* date removes exactly the rows whose computed date is the target date and
\* leaves every other row present, unmodified and in the same order.
C28_OnlyTargetDateTouched ==
  [][ lastRec'.saved
      => ledger' = AllButDate(ledger, lastRec'.date, scriptTZ, lastRec'.results) ]_vars

\* C28 (amended): on a ledger sheet whose header row is the expected one a
\* successful save for a target date removes exactly the rows whose computed
\* date is the target date and leaves every other row present, unmodified
\* and in the same order; on a sheet with any other header row it first
\* clears the whole sheet, so that only the new rows are left.
C28_OnlyTargetDateTouchedUnderHeader ==
  [][ lastRec'.saved
      => /\ sheet = "ok"
            => ledger' = AllButDate(ledger, lastRec'.date, scriptTZ, lastRec'.results)
         /\ sheet = "other" => ledger' = newRows(lastRec'.results) ]_vars

\* A second save for day 1 has removed the trades the first one stored and
\* the sheet's own row of day 2 is still the first row.
C28_Witness ==
  /\ lastRec.saved /\ lastRec.date = DateStr(1)
  /\ lastRec.dropped # {}
  /\ \A k \in 1..Len(ledger) : ledger[k].id \notin lastRec.dropped
  /\ Len(ledger) >= 1
  /\ ledger[1] = SheetRow(12, IsoCell(2, 10), Num(1), Num(1))

\* The cell is empty, a short string, no string and no Date, or a string
\* that is no date.
Undeterminable(cell) == cell.kind \in {"empty", "short", "number", "text"}

Range(seq) == { seq[k] : k \in 1..Len(seq) }

\* C29: whatever the target date, the scan of a save never puts on the
\* deletion list a row whose timestamp cell is empty, a string shorter than
\* ten characters, neither a string nor a Date, or a string that is no date;
\* the deletion loop leaves those rows where they are.
C29_UndatedRowsNeverDeleted ==
  [][ lastRec'.saved
      => /\ \A d \in Days : \A i \in 1..Len(ledger) :
              Undeterminable(ledger[i].timestamp)
              => (i + 1) \notin Range(scanRows(ledger, 1, DateStr(d), scriptTZ))
         /\ sheet = "ok"
            => SelectSeq(ledger', LAMBDA r : Undeterminable(r.timestamp))
               = SelectSeq(ledger, LAMBDA r : Undeterminable(r.timestamp)) ]_vars

\* A save has run over a sheet with an empty and an unreadable timestamp
\* cell, has appended rows, and both rows are still there.
C29_Witness ==
  /\ lastRec.saved
  /\ Len(ledger) > 2
  /\ ledger[1].timestamp = EmptyCell
  /\ ledger[2].timestamp = BadCell

\* The trades of a result object, account after account.
RECURSIVE AllTrades(_)
AllTrades(res) ==
  IF res = <<>> THEN <<>> ELSE Head(res).trades \o AllTrades(Tail(res))

\* The P&L of the trades added up, a trade without P&L counting as 0.
RECURSIVE SumOfPnl(_)
SumOfPnl(trades) ==
  IF trades = <<>> THEN 0
  ELSE (IF Head(trades).profitAndLoss.present
        THEN Head(trades).profitAndLoss.value ELSE 0) + SumOfPnl(Tail(trades))

\* C30: the report of a successful save gives as tradeCount the number of
\* trades in all account results, which is the number of rows the save has
\* appended to the ledger, and as totalProfit the sum of the P&L of those
\* trades, a trade without P&L counting as 0.
C30_ReportTotals ==
  (pc = "Reporting" /\ result.success)
  => LET n == Len(AllTrades(results))
     IN /\ result.tradeCount = n
        /\ n <= Len(ledger)
        /\ \A k \in 1..n :
             /\ ledger[Len(ledger) - n + k].id = AllTrades(results)[k].id
             /\ ledger[Len(ledger) - n + k].profitAndLoss = AllTrades(results)[k].profitAndLoss
        /\ \A k \in 1..(Len(ledger) - n) : HasRow(ledgerAtStart, ledger[k])
        /\ result.totalProfit = SumOfPnl(AllTrades(results))

\* A successful save of several trades, one of them without P&L.
C30_Witness ==
  /\ pc = "Reporting" /\ result.success
  /\ result.tradeCount >= 2
  /\ result.totalProfit # 0
  /\ \E k \in 1..Len(AllTrades(results)) : ~AllTrades(results)[k].profitAndLoss.present

\* C31: a voided trade is written to the ledger with the 'yes' label, and
\* the day's row of the table counts it, its P&L and its fee like those of
\* any other row of that day.
C31_VoidedStoredAndAggregated ==
  (fresh /\ sheet = "ok" /\ Len(ledger) > 0)
  => /\ \A i \in 1..Len(ledger) :
          /\ ledger[i].voided = (IF Trade(ledger[i].id, 1).voided THEN "yes" ELSE "no")
          /\ ledger[i].voided = "yes"
             => \E k \in 1..Len(daily.rows) :
                  daily.rows[k].date = dateKey(ledger[i].timestamp, scriptTZ)
     /\ \A k \in 1..Len(daily.rows) :
          LET of == RowsOfKey(daily.rows[k].date)
          IN /\ daily.rows[k].count = Len(of)
             /\ daily.rows[k].totalProfitLoss
                  = SumInOrder([j \in 1..Len(of) |-> of[j].profitAndLoss])
             /\ daily.rows[k].totalFees = SumInOrder([j \in 1..Len(of) |-> of[j].fees])

\* A day's row of the table counts a voided row and another row, and the
\* fee total has the fees of both.
C31_Witness ==
  /\ fresh /\ sheet = "ok"
  /\ \E k \in 1..Len(daily.rows) :
       LET of == RowsOfKey(daily.rows[k].date)
       IN /\ daily.rows[k].count = 2
          /\ \E j \in 1..2 : of[j].voided = "yes" /\ of[j].fees = Num(3)
          /\ \E j \in 1..2 : of[j].voided = "no" /\ of[j].fees = Num(2)
          /\ daily.rows[k].totalFees = 5

\* C32: a run asks for a token exactly once, with its first request; every
\* later request of the run, the account search and each trade search,
\* carries the token that this call returned.
C32_SingleTokenPerRun ==
  (pc # "Idle")
  => /\ Cardinality({ k \in 1..Len(requests) : requests[k].endpoint = "auth" })
          = (IF pc = "Authenticating" THEN 0 ELSE 1)
     /\ requests # <<>> => requests[1].endpoint = "auth"
     /\ \A k \in 2..Len(requests) :
          /\ requests[k].endpoint \in {"accounts", "trades"}
          /\ requests[k].token = GoodAuth.token
          /\ requests[k].token = token

\* A run has searched the accounts and the trades of two accounts.
C32_Witness ==
  /\ pc = "Reporting" /\ result.success
  /\ Len(requests) = 4
  /\ requests[2].endpoint = "accounts"
  /\ requests[3].endpoint = "trades" /\ requests[4].endpoint = "trades"

\* C33 (as claimed): every row that the latest save appended for its target
\* date, whatever the hour of its execution within the UTC window, is (a) a
\* row the scan of a next save for that date would put on its deletion list
\* and (b) a row calculateDailyProfits counts under that date.
C33_DatesAgree ==
  lastRec.saved
  => \A i \in 1..Len(ledger) :
       (/\ ledger[i].id \in Ids(lastRec.results)
        /\ DateStr(ledger[i].timestamp.day) = lastRec.date)
       => /\ isTargetRow(ledger[i].timestamp, lastRec.date, scriptTZ)
          /\ dateKey(ledger[i].timestamp, scriptTZ) = lastRec.date
          /\ fresh => \E k \in 1..Len(daily.rows) : daily.rows[k].date = lastRec.date

\* C34: a run for a target date that is not of the form YYYY-MM-DD never
\* gets to a trade search or to the save: no trade search is requested, the
\* ledger stays as it was when the run began, nothing is marked for deletion,
\* and the result is a failure.
C34_MalformedDateLeavesLedger ==
  (pc # "Idle" /\ ~targetDate.wellFormed)
  => /\ pc \in {"Authenticating", "ResolvingAccounts", "Reporting"}
     /\ \A k \in 1..Len(requests) : requests[k].endpoint # "trades"
     /\ ledger = ledgerAtStart
     /\ rowsToDelete = <<>>
     /\ results = <<>>
     /\ pc = "Reporting" => ~result.success

\* The date was turned down after the accounts had been found, while the
\* ledger held rows.
C34_Witness ==
  /\ pc = "Reporting"
  /\ ~targetDate.wellFormed
  /\ result = Failure("InvalidDateFormat", 0)
  /\ Len(requests) = 2
  /\ Len(ledger) > 0

\* C35: every successful save leaves the expected header in row 1 of the
\* ledger sheet.  On a sheet with another header it clears all the rows, of
\* every date, so that the new rows alone follow the header; on a sheet with
\* the expected header no row of another date than the target's is lost.
C35_HeaderInvariant ==
  /\ [](lastRec.saved => sheet = "ok")
  /\ [][ lastRec'.saved
         => /\ sheet' = "ok"
            /\ sheet # "ok" => ledger' = newRows(lastRec'.results)
            /\ lastRec'.cleared <=> (sheet = "other" /\ ledger # <<>>)
            /\ sheet = "ok"
               => \A i \in 1..Len(ledger) :
                    ~DatedTo(ledger[i], lastRec'.date, scriptTZ)
                    => HasRow(ledger', ledger[i]) ]_vars

\* A save found rows under another header and left its own rows alone.
C35_Witness ==
  /\ lastRec.saved /\ lastRec.cleared
  /\ sheet = "ok"
  /\ ledger = newRows(lastRec.results)
  /\ ledger # <<>>

\* C36 (as claimed): for a trade of either side the scheduled ingest and the
\* JSON import write the same label into the side column.
C36_SameSideLabel ==
  call.fn = "sideLabels"
  => call.out.saveTradeHistoryToSheet = call.out.importTradesFromJson

\* C37: after logExecution on a log sheet of at most 100 entries the sheet
\* exists and holds at most 100 entries below its header, the entry just
\* written is the last row, and the entries are the latest ones of the old
\* sheet followed by the new one: what was dropped is the oldest.
C37_BoundedLog ==
  call.fn = "logExecution"
  => LET old == call.arg.rows
         new == call.out.rows
         all == old \o <<Len(old) + 1>>
     IN /\ call.out.exists
        /\ Len(new) <= 100
        /\ Len(new) = (IF Len(old) < 100 THEN Len(old) + 1 ELSE 100)
        /\ new[Len(new)] = Len(old) + 1
        /\ new = SubSeq(all, Len(all) - Len(new) + 1, Len(all))

\* The entry was written to a full log and the oldest entry is gone.
C37_Witness ==
  /\ call.fn = "logExecution"
  /\ Len(call.arg.rows) = 100
  /\ call.out.rows[1] = 2
  /\ call.out.rows[100] = 101

\* C38 (as claimed): once onOpen, initialize, checkAndSetupTrigger or
\* setupDailyTrigger has run, the project has exactly one trigger of the
\* handler dailyHistoryFetch.
C38_ExactlyOneDailyTrigger ==
  call.fn \in {"onOpen", "initialize", "checkAndSetupTrigger", "setupDailyTrigger"}
  => Cardinality({ i \in 1..Len(triggers) : triggers[i] = "dailyHistoryFetch" }) = 1

====
